---- MODULE Spec2Model ----
(***************************************************************************)
(* BridgeSession (src/src/bridge.ts) driven by arbitrary API calls and     *)
(* transport callbacks, with the Ink consumer of its events in repl mode   *)
(* (useEventHandler / useAppReducer / useKeyboard) attached as the event   *)
(* callback.                                                               *)
(*                                                                         *)
(* Every call and callback is an operator from the state (and its input)   *)
(* to a Result: the state afterwards, the messages handed to bridge.send,  *)
(* the AppEvents emitted and the value returned.  The actions apply these  *)
(* operators; the properties evaluate them on every reachable state.       *)
(*                                                                         *)
(* The transport (CodexLocalBridge) is external.  Its per-event callback is *)
(* serialized on the promise handleEvent returns (that is what the await   *)
(* in the approval branch relies on); global messages, protocol errors and *)
(* process exit are delivered at any time.                                 *)
(***************************************************************************)
EXTENDS Integers, Sequences, FiniteSets, TLC

\* ---------------------------------------------------------------- bounds
MaxId == 3
MaxApprovals == 1
MaxSends == 2

VARIABLES
    config,              \* Config: approvalMode, reasoningOnly, debug
    threadState,         \* BridgeSession.threadState
    turnState,           \* BridgeSession.turnState
    nextId,              \* BridgeSession.nextId
    pendingRequests,     \* BridgeSession.pendingRequests
    stopped,             \* BridgeSession.stopped
    bridgeStarted,       \* bridge.start() has been called
    bridgeStops,         \* number of bridge.stop() calls
    exited,              \* process.exit(1) was called
    startFuts,           \* promises returned by waitForThreadStart while not ready
    turnFuts,            \* promises returned by accepted runTurn calls
    approvals,           \* respond closures created by handleEvent
    awaiting,            \* approval whose promise handleEvent is awaiting (0: none)
    phase,               \* AppState.phase of the reducer
    approvalRespondRef,  \* approvalRespondRef.current (0: null)
    trace,               \* the steps so far, kept while the run follows a scenario
    writer,              \* the fields of the MarkdownWriter
    emitted,             \* the chunks the last writer call handed to onLine
    returned,            \* the last writer call and what it returned
    token,               \* a table token and what renderer.table made of it
    history,             \* what the session emitted and sent over a sequence of turns
    feed,                \* a text, and how much of it has been fed to the writer
    models               \* the state of one fetchAvailableModels call

sessionVars ==
    <<config, threadState, turnState, nextId, pendingRequests, stopped, bridgeStarted,
      bridgeStops, exited, startFuts, turnFuts, approvals, awaiting, phase,
      approvalRespondRef, trace>>
writerVars == <<writer, emitted, returned>>
auxVars == <<history, feed, models>>
vars == <<sessionVars, writerVars, token, auxVars>>

\* The session, its transport and its consumer as one value: the handlers below
\* are functions from such a value (and an input) to a Result.
Cur ==
    [threadState |-> threadState, turnState |-> turnState, nextId |-> nextId,
     pendingRequests |-> pendingRequests, stopped |-> stopped,
     bridgeStarted |-> bridgeStarted, bridgeStops |-> bridgeStops, exited |-> exited,
     startFuts |-> startFuts, turnFuts |-> turnFuts, approvals |-> approvals,
     awaiting |-> awaiting, phase |-> phase, approvalRespondRef |-> approvalRespondRef]

\* What a call or callback does: the state afterwards, the messages handed to
\* bridge.send, the AppEvents emitted (both in order) and what it returns: res
\* is "throw", "resolved" or "pending" (a promise), or "" (nothing), val the
\* value of a resolved promise; md holds the calls the consumer made of the
\* MarkdownWriter (md.addDelta, md.flush).
Result(s, sent, evs, res, val) ==
    [s |-> s, sent |-> sent, evs |-> evs, res |-> res, val |-> val, md |-> <<>>]
MdCall(call, text) == [call |-> call, text |-> text]
\* Entry of a call or callback: nothing sent or emitted yet.
Enter(s) == Result(s, <<>>, <<>>, "", "")

\* ----------------------------------------------------------- JSON values
Undef == [t |-> "undefined", v |-> ""]
Null == [t |-> "null", v |-> ""]
Str(s) == [t |-> "string", v |-> s]
Num(s) == [t |-> "number", v |-> s]

\* ------------------------------------------------------------ EventKind
ThreadStarted == "thread/started"
TurnStarted == "turn/started"
TurnCompleted == "turn/completed"
AgentMessageDelta == "item/agentMessage/delta"
ReasoningSummaryDelta == "item/reasoning/summaryTextDelta"
ReasoningSectionBreak == "item/reasoning/summaryPartAdded"
ReasoningRawDelta == "item/reasoning/textDelta"
CommandOutputDelta == "item/commandExecution/outputDelta"
CommandApproval == "item/commandExecution/requestApproval"
FileChangeApproval == "item/fileChange/requestApproval"
ItemCompleted == "item/completed"
ServerError == "error"
AccountRateLimitsUpdated == "account/rateLimits/updated"
\* A method the client has no name for.
TokenUsageUpdated == "thread/tokenUsage/updated"

REASONING_EVENT_KINDS == {ReasoningSummaryDelta, ReasoningSectionBreak, ReasoningRawDelta}
APPROVAL_KINDS == {CommandApproval, FileChangeApproval}

\* --------------------------------------------------------------- inputs
\* The ids the backend assigns in the runs explored (a turn-started event may
\* lack its turn id); the session never compares ids, it stores and echoes them.
ThreadIds == {"T1"}
TurnIds == {"", "G1"}
Texts == {"hi"}
ApprovalModes == {"auto-approve", "deny", "prompt"}
Decisions == {"accept", "decline"}

\* A decoded payloadJson: form "null" is the JSON text null, form "object" an
\* object with the fields id, method and params (params an object holding delta).
Payload(id, method, params, delta) ==
    [form |-> "object", id |-> id, method |-> method, params |-> params, delta |-> delta]
NullPayload == [form |-> "null", id |-> Undef, method |-> Undef, params |-> "absent", delta |-> Undef]
Notification(kind) == Payload(Undef, Str(kind), "object", Undef)

DeltaValues == {Str(""), Str("Hi")}
DeltaPayloads(kind) == {Payload(Undef, Str(kind), "object", d) : d \in DeltaValues}
\* Well-formed approval requests carry a numeric or a string id; the malformed
\* ones lack the id or the method, or carry one of the wrong type.
ApprovalPayloads(kind) ==
    IF kind = CommandApproval
    THEN {Payload(i, Str(kind), "object", Undef) : i \in {Num("7"), Undef, Null}}
            \cup {Payload(Num("7"), m, "object", Undef) : m \in {Undef, Num("1")}}
    ELSE {Payload(Str("7"), Str(kind), "object", Undef), NullPayload}

BridgeEvent(kind, threadId, turnId, payload) ==
    [kind |-> kind, threadId |-> threadId, turnId |-> turnId, payload |-> payload]
NoBridgeEvent == BridgeEvent("", "", "", NullPayload)

InEvents ==
    {BridgeEvent(ThreadStarted, t, "", Notification(ThreadStarted)) : t \in ThreadIds}
    \cup {BridgeEvent(TurnStarted, "T1", g, Notification(TurnStarted)) : g \in TurnIds}
    \cup {BridgeEvent(TurnCompleted, "T1", "G1", Notification(TurnCompleted))}
    \cup {BridgeEvent(ItemCompleted, "T1", "G1", Notification(ItemCompleted))}
    \cup {BridgeEvent(TokenUsageUpdated, "T1", "G1", Notification(TokenUsageUpdated))}
    \cup {BridgeEvent(ReasoningSectionBreak, "T1", "G1", Notification(ReasoningSectionBreak))}
    \cup UNION {{BridgeEvent(k, "T1", "G1", p) : p \in DeltaPayloads(k)} :
                  k \in {ReasoningSummaryDelta, ReasoningRawDelta, AgentMessageDelta,
                         CommandOutputDelta}}
    \cup UNION {{BridgeEvent(k, "T1", "G1", p) : p \in ApprovalPayloads(k)} :
                  k \in APPROVAL_KINDS}

\* A decoded global message: an object with an optional id (idType "undefined":
\* no id field), an optional method and an optional error member.
GlobalMessage(idType, id, method, error) ==
    [idType |-> idType, id |-> id, method |-> method, error |-> error]
NoGlobalMessage == GlobalMessage("undefined", 0, Undef, FALSE)
\* The backend answers a request at most once, so a response carries the id
\* of a request still in the table, or an id the session never sent (0: ids
\* are allocated from 1).
InMessages(s) ==
    {GlobalMessage("number", i, Undef, e) :
        i \in {r.id : r \in s.pendingRequests} \cup {0}, e \in BOOLEAN}
    \cup {GlobalMessage("string", 0, Undef, TRUE)}
    \cup {GlobalMessage("undefined", 0, Str(m), FALSE) :
            m \in {"error", "account/rateLimits/updated", "thread/tokenUsage/updated"}}
    \cup {GlobalMessage("number", 1, Str("error"), FALSE)}

\* ------------------------------------------------------------------ text
\* A string is the sequence of its characters.
NL == "\n"
\* U+0060, the grave accent, by name.
Backtick == "GRAVE"
Tilde == "~"
\* The MarkdownWriter after construction and after reset().
InitWriter ==
    [buffer |-> <<>>, paragraphBuffer |-> <<>>, inCodeBlock |-> FALSE,
     codeBlockFenceChar |-> "", codeBlockFenceLen |-> 0, codeBlockLang |-> <<>>]
\* The return value of a call that returns nothing.
Void == [t |-> "undefined", v |-> <<>>]
Return(call, val) == [call |-> call, val |-> val]
\* No table token.
NoOut == [colWidths |-> <<>>, cells |-> <<>>, text |-> <<>>]
NoTable == [header |-> <<>>, rows |-> <<>>, align |-> <<>>, color |-> FALSE, out |-> NoOut]
\* Nothing emitted or sent yet.
NoHistory == [evs |-> <<>>, reqs |-> <<>>, answered |-> {}, completed |-> {}]
\* No text to feed: fed is the number of characters handed to addDelta so
\* far, in fragments calls; out holds the chunks handed to onLine so far;
\* throws tells whether marked.parse throws (on every paragraph, or on none).
NoFeed ==
    [text |-> <<>>, fed |-> 0, fragments |-> 0, flushed |-> FALSE, out |-> <<>>,
     throws |-> FALSE]
\* fetchAvailableModels not called: settled is the flag of the call, timer
\* its timeout ("none", "armed", "cleared" or "fired"), starts and stops count
\* the bridge.start() and bridge.stop() calls, sent holds the messages handed
\* to bridge.send, resolved the arguments of the resolveOuter calls, and log
\* the callbacks that have run.
NoModels ==
    [called |-> FALSE, nextId |-> 1, settled |-> FALSE, timer |-> "none", starts |-> 0,
     stops |-> 0, sent |-> <<>>, resolved |-> <<>>, log |-> <<>>]

\* ------------------------------------------------------ outgoing messages
Msg(method, id) ==
    [method |-> method, id |-> id, threadId |-> "", turnId |-> "", text |-> "",
     approvalPolicy |-> "", rid |-> Undef, decision |-> ""]

\* -------------------------------------------------------------- AppEvent
Ev(type) ==
    [type |-> type, threadId |-> "", delta |-> "", kind |-> "", payload |-> NullPayload,
     respond |-> 0, message |-> "", tag |-> ""]

\* ---------------------------------------------------------- state values
InitThread == [status |-> "init", threadId |-> "", fut |-> 0]
IdleTurn ==
    [status |-> "idle", turnId |-> "", gotFirstToken |-> FALSE, assistantLineOpen |-> FALSE,
     commandOutputOpen |-> FALSE, reasoningStarted |-> FALSE, fut |-> 0]
Pending == [state |-> "pending", value |-> "", calls |-> 0]
InitSession ==
    [threadState |-> InitThread, turnState |-> IdleTurn, nextId |-> 1,
     pendingRequests |-> {}, stopped |-> FALSE, bridgeStarted |-> FALSE,
     bridgeStops |-> 0, exited |-> FALSE, startFuts |-> <<>>, turnFuts |-> <<>>,
     approvals |-> <<>>, awaiting |-> 0, phase |-> "connecting",
     approvalRespondRef |-> 0]

\* ------------------------------------------------------ protocol helpers
toProtocolApprovalPolicy(mode) == IF mode = "auto-approve" THEN "never" ELSE "untrusted"

\* getLifecycleEventType naming every unknown kind a completed item.
getLifecycleEventTypeDefault(kind) ==
    IF kind = ThreadStarted THEN "thread-started"
    ELSE IF kind = TurnStarted THEN "turn-started"
    ELSE IF kind = TurnCompleted THEN "turn-completed"
    ELSE "item-completed"

\* The lifecycle name of a kind, or "null".
getLifecycleEventType(kind) ==
    IF kind = ThreadStarted THEN "thread-started"
    ELSE IF kind = TurnStarted THEN "turn-started"
    ELSE IF kind = TurnCompleted THEN "turn-completed"
    ELSE IF kind = ItemCompleted THEN "item-completed"
    ELSE "null"
isServerErrorMethod(method) == method = ServerError
isGlobalNoopNotification(method) == method = AccountRateLimitsUpdated
isApprovalKind(kind) == kind = CommandApproval \/ kind = FileChangeApproval

\* A message object is a response when it has an id member and no method member.
isServerNotification(message) == message.method # Undef
\* isResponse looking at the id alone.
isResponseAnyMethod(message) == message.idType # "undefined"
isResponse(message) == message.idType # "undefined" /\ ~isServerNotification(message)

\* params.delta when params is an object and delta a string, else null.
extractDelta(payload) ==
    IF payload.form = "object" /\ payload.params = "object" /\ payload.delta.t = "string"
    THEN payload.delta
    ELSE Null

\* The test of a delta letting the empty string through.
TruthyAnyString(delta) == delta.t = "string"

\* JavaScript truthiness of what extractDelta returns.
Truthy(delta) == delta.t = "string" /\ delta.v # ""

\* parseApprovalPayload without the check of the id.
parseApprovalPayloadAnyId(payload) ==
    IF payload.form # "object" THEN Null
    ELSE IF payload.method.t # "string" THEN Null
    ELSE payload

\* The parsed payload, or Null when the id is no number or string or the
\* method no string.
parseApprovalPayload(payload) ==
    IF payload.form # "object" THEN Null
    ELSE IF payload.id.t \notin {"number", "string"} THEN Null
    ELSE IF payload.method.t # "string" THEN Null
    ELSE payload

\* sendApprovalDecision answering every kind in the command-execution shape.
sendApprovalDecisionOneShape(kind, approvalRequestId, decision) ==
    <<[Msg("commandExecutionApprovalResponse", 0)
         EXCEPT !.rid = approvalRequestId, !.decision = decision]>>

\* What sendApprovalDecision hands to bridge.send: one message, or none.
sendApprovalDecision(kind, approvalRequestId, decision) ==
    IF kind = CommandApproval
    THEN <<[Msg("commandExecutionApprovalResponse", 0)
              EXCEPT !.rid = approvalRequestId, !.decision = decision]>>
    ELSE IF kind = FileChangeApproval
    THEN <<[Msg("fileChangeApprovalResponse", 0)
              EXCEPT !.rid = approvalRequestId, !.decision = decision]>>
    ELSE <<>>

\* --------------------------------------------------------------- promises
\* resolve (outcome "resolved") or reject (outcome "rejected") of promise i:
\* only the first call settles it; calls counts every call.
Settle(futs, i, outcome, value) ==
    [futs EXCEPT ![i] =
        [state |-> IF @.state = "pending" THEN outcome ELSE @.state,
         value |-> IF @.state = "pending" THEN value ELSE @.value,
         calls |-> @.calls + 1]]

\* --------------------------------------------------------- pending table
PendingMethod(table, id) ==
    IF \E r \in table : r.id = id
    THEN (CHOOSE r \in table : r.id = id).method
    ELSE ""
PendingSet(table, id, method) ==
    {r \in table : r.id # id} \cup {[id |-> id, method |-> method]}
\* pendingRequests.delete leaving the entry in the table.
PendingDeleteKeeps(table, id) == table
PendingDelete(table, id) == {r \in table : r.id # id}

\* -------------------------------------------------------- the consumer
\* The phase the reducer computes for an AppEvent or an approve-decision.
reducer(p, ev) ==
    IF ev.type = "thread-ready" THEN "idle"
    ELSE IF ev.type = "waiting-start" THEN "waiting"
    ELSE IF ev.type = "reasoning-delta" THEN (IF p = "streaming" THEN "waiting" ELSE p)
    ELSE IF ev.type = "response-delta"
        THEN (IF config.reasoningOnly THEN p ELSE "streaming")
    ELSE IF ev.type = "command-output-delta" THEN (IF p = "waiting" THEN "streaming" ELSE p)
    ELSE IF ev.type = "approval-request"
        THEN (IF parseApprovalPayload(ev.payload) # Null /\ config.approvalMode = "prompt"
              THEN "approval" ELSE p)
    ELSE IF ev.type = "approve-decision" THEN "waiting"
    ELSE IF ev.type = "turn-complete" THEN "idle"
    ELSE p

dispatch(r, ev) == [r EXCEPT !.s.phase = reducer(@, ev)]

\* The respond closure handleEvent creates for an approval request: the kind
\* and the parsed id it captured, the payload it was emitted with, whether
\* its promise is resolved, and how many decisions it has sent.
Closure(e) ==
    [kind |-> e.kind, id |-> parseApprovalPayload(e.payload).id, payload |-> e.payload,
     resolved |-> FALSE, sends |-> 0]

\* A call respond(decision) of closure k.
respond(r, k, decision) ==
    LET c == r.s.approvals[k]
        out == sendApprovalDecision(c.kind, c.id, decision)
    IN  [r EXCEPT !.sent = @ \o out,
                  !.s.approvals[k].sends = @ + Len(out),
                  !.s.approvals[k].resolved = TRUE,
                  !.s.awaiting = IF @ = k THEN 0 ELSE @]

\* The event callback keeping the respond callback in every mode.
handlerKeepsCallback(r, ev) ==
    IF ev.type = "approval-request"
    THEN LET r1 == [r EXCEPT !.s.approvalRespondRef = ev.respond]
         IN  IF config.approvalMode = "auto-approve"
             THEN dispatch(respond(r1, ev.respond, "accept"), ev)
             ELSE IF config.approvalMode = "deny"
             THEN dispatch(respond(r1, ev.respond, "decline"), ev)
             ELSE dispatch(r1, ev)
    ELSE dispatch(r, ev)

\* The event callback useEventHandler installs.
handler(r, ev) ==
    IF ev.type = "approval-request"
    THEN IF parseApprovalPayload(ev.payload) = Null
         THEN dispatch(respond(r, ev.respond, "decline"), ev)
         ELSE IF config.approvalMode = "auto-approve"
         THEN dispatch(respond(r, ev.respond, "accept"), ev)
         ELSE IF config.approvalMode = "deny"
         THEN dispatch(respond(r, ev.respond, "decline"), ev)
         ELSE dispatch([r EXCEPT !.s.approvalRespondRef = ev.respond], ev)
    ELSE IF ev.type = "response-delta" /\ ~config.reasoningOnly
    THEN [dispatch(r, ev) EXCEPT !.md = Append(@, MdCall("addDelta", ev.delta))]
    ELSE IF ev.type \in {"reasoning-delta", "turn-complete"}
    THEN [dispatch(r, ev) EXCEPT !.md = Append(@, MdCall("flush", ""))]
    ELSE dispatch(r, ev)

\* The y (accept) and n (decline) keys of useKeyboard.
useKeyboard(s, decision) ==
    IF s.phase = "approval"
    THEN LET r0 == Enter(s)
             r1 == IF s.approvalRespondRef # 0
                   THEN respond(r0, s.approvalRespondRef, decision) ELSE r0
             r2 == dispatch(r1, Ev("approve-decision"))
         IN  [r2 EXCEPT !.s.approvalRespondRef = 0]
    ELSE Enter(s)

\* ------------------------------------------------------------ internals
emit(r, ev) == handler([r EXCEPT !.evs = Append(@, ev)], ev)

\* requestId() is r.s.nextId followed by this increment.
requestId(r) == [r EXCEPT !.s.nextId = @ + 1]

sendMessage(r, message, trackedMethod) ==
    [r EXCEPT !.sent = Append(@, message),
              !.s.pendingRequests =
                  IF message.id # 0 /\ trackedMethod # ""
                  THEN PendingSet(@, message.id, trackedMethod) ELSE @]

\* onFirstToken recording the first token without announcing it.
onFirstTokenQuiet(r) ==
    IF r.s.turnState.status = "active" /\ ~r.s.turnState.gotFirstToken
    THEN [r EXCEPT !.s.turnState.gotFirstToken = TRUE]
    ELSE r

\* onFirstToken announcing every token of an active turn.
onFirstTokenEveryTime(r) ==
    IF r.s.turnState.status = "active"
    THEN emit([r EXCEPT !.s.turnState.gotFirstToken = TRUE], Ev("waiting-stop"))
    ELSE r

onFirstToken(r) ==
    IF r.s.turnState.status = "active" /\ ~r.s.turnState.gotFirstToken
    THEN emit([r EXCEPT !.s.turnState.gotFirstToken = TRUE], Ev("waiting-stop"))
    ELSE r

\* settleTurn announcing a completion although no turn is active.
settleTurnUnguarded(r, outcome) ==
    IF r.s.turnState.status # "active" THEN emit(r, Ev("turn-complete"))
    ELSE LET fut == r.s.turnState.fut
             r1 == emit([r EXCEPT !.s.turnState = IdleTurn], Ev("turn-complete"))
         IN  [r1 EXCEPT !.s.turnFuts = Settle(@, fut, outcome, "")]

\* settleTurn leaving the turn active.
settleTurnStaysActive(r, outcome) ==
    IF r.s.turnState.status # "active" THEN r
    ELSE LET r1 == emit(r, Ev("turn-complete"))
         IN  [r1 EXCEPT !.s.turnFuts = Settle(@, r.s.turnState.fut, outcome, "")]

\* settleTurn resolving the future whatever the outcome.
settleTurnAlwaysResolves(r, outcome) ==
    IF r.s.turnState.status # "active" THEN r
    ELSE LET fut == r.s.turnState.fut
             r1 == emit([r EXCEPT !.s.turnState = IdleTurn], Ev("turn-complete"))
         IN  [r1 EXCEPT !.s.turnFuts = Settle(@, fut, "resolved", "")]

\* outcome is "resolved" or "rejected".
settleTurn(r, outcome) ==
    IF r.s.turnState.status # "active" THEN r
    ELSE LET fut == r.s.turnState.fut
             r1 == emit([r EXCEPT !.s.turnState = IdleTurn], Ev("turn-complete"))
         IN  [r1 EXCEPT !.s.turnFuts = Settle(@, fut, outcome, "")]

\* waitForThreadStart repeating the handshake when the thread is ready.
waitForThreadStartAgain(s) ==
    LET r0 == [Enter(s) EXCEPT !.s.bridgeStarted = TRUE]
        r1 == sendMessage(requestId(r0), Msg("initialize", r0.s.nextId), "initialize")
        r2 == sendMessage(r1, Msg("initialized", 0), "")
        r3 == sendMessage(requestId(r2), Msg("thread/start", r2.s.nextId), "thread/start")
    IN  [r3 EXCEPT !.s.startFuts = Append(@, Pending),
                   !.s.threadState =
                       [status |-> "starting", threadId |-> "", fut |-> Len(s.startFuts) + 1],
                   !.res = "pending"]

\* ------------------------------------------------------------ public API
waitForThreadStart(s) ==
    IF s.threadState.status = "ready"
    THEN Result(s, <<>>, <<>>, "resolved", s.threadState.threadId)
    ELSE LET r0 == [Enter(s) EXCEPT !.s.bridgeStarted = TRUE]
             r1 == sendMessage(requestId(r0), Msg("initialize", r0.s.nextId), "initialize")
             r2 == sendMessage(r1, Msg("initialized", 0), "")
             threadStart == [Msg("thread/start", r2.s.nextId) EXCEPT
                                !.approvalPolicy =
                                    toProtocolApprovalPolicy(config.approvalMode)]
             r3 == sendMessage(requestId(r2), threadStart, "thread/start")
         IN  [r3 EXCEPT !.s.startFuts = Append(@, Pending),
                        !.s.threadState =
                            [status |-> "starting", threadId |-> "",
                             fut |-> Len(s.startFuts) + 1],
                        !.res = "pending"]

\* runTurn without the check for a turn in progress.
runTurnWhileActive(s, text) ==
    IF s.threadState.status # "ready" THEN Result(s, <<>>, <<>>, "throw", "Thread not ready.")
    ELSE LET r1 == emit(Enter(s), Ev("waiting-start"))
             r2 == [r1 EXCEPT !.s.turnFuts = Append(@, Pending),
                              !.s.turnState =
                                  [IdleTurn EXCEPT !.status = "active",
                                                   !.fut = Len(r1.s.turnFuts) + 1]]
             turnStart == [Msg("turn/start", r2.s.nextId) EXCEPT
                              !.threadId = s.threadState.threadId, !.text = text]
         IN  [sendMessage(requestId(r2), turnStart, "turn/start") EXCEPT !.res = "pending"]

\* runTurn without the check that the thread is ready.
runTurnBeforeReady(s, text) ==
    IF s.turnState.status = "active"
    THEN Result(s, <<>>, <<>>, "throw", "A turn is already in progress.")
    ELSE LET r1 == emit(Enter(s), Ev("waiting-start"))
             r2 == [r1 EXCEPT !.s.turnFuts = Append(@, Pending),
                              !.s.turnState =
                                  [IdleTurn EXCEPT !.status = "active",
                                                   !.fut = Len(r1.s.turnFuts) + 1]]
             turnStart == [Msg("turn/start", r2.s.nextId) EXCEPT
                              !.threadId = s.threadState.threadId, !.text = text]
         IN  [sendMessage(requestId(r2), turnStart, "turn/start") EXCEPT !.res = "pending"]

runTurn(s, text) ==
    IF s.threadState.status # "ready" THEN Result(s, <<>>, <<>>, "throw", "Thread not ready.")
    ELSE IF s.turnState.status = "active"
    THEN Result(s, <<>>, <<>>, "throw", "A turn is already in progress.")
    ELSE LET r1 == emit(Enter(s), Ev("waiting-start"))
             r2 == [r1 EXCEPT !.s.turnFuts = Append(@, Pending),
                              !.s.turnState =
                                  [IdleTurn EXCEPT !.status = "active",
                                                   !.fut = Len(r1.s.turnFuts) + 1]]
             turnStart == [Msg("turn/start", r2.s.nextId) EXCEPT
                              !.threadId = s.threadState.threadId, !.text = text]
             r3 == sendMessage(requestId(r2), turnStart, "turn/start")
         IN  [r3 EXCEPT !.res = "pending"]

\* interruptTurn sending the request as soon as a turn is active, and
\* settling the turn locally.
interruptTurnCancels(s) ==
    IF s.threadState.status # "ready" \/ s.turnState.status # "active"
    THEN Enter(s)
    ELSE LET interruptReq == [Msg("turn/interrupt", s.nextId) EXCEPT
                                 !.threadId = s.threadState.threadId,
                                 !.turnId = s.turnState.turnId]
             r1 == sendMessage(requestId(Enter(s)), interruptReq, "turn/interrupt")
         IN  settleTurn(r1, "rejected")

interruptTurn(s) ==
    IF \/ s.threadState.status # "ready"
       \/ s.turnState.status # "active"
       \/ s.turnState.turnId = ""
    THEN Enter(s)
    ELSE LET r0 == Enter(s)
             interruptReq == [Msg("turn/interrupt", s.nextId) EXCEPT
                                 !.threadId = s.threadState.threadId,
                                 !.turnId = s.turnState.turnId]
         IN  sendMessage(requestId(r0), interruptReq, "turn/interrupt")

stop(s) ==
    IF s.stopped THEN Enter(s)
    ELSE [Enter(s) EXCEPT !.s.stopped = TRUE, !.s.bridgeStops = @ + 1]

\* -------------------------------------------------------- event handlers
\* The approval branch of handleEvent going on without awaiting the decision.
handleApprovalRequestNoAwait(r0, event) ==
    LET r1 == onFirstToken(r0)
        k == Len(r1.s.approvals) + 1
        r2 == [r1 EXCEPT !.s.approvals = Append(@, Closure(event))]
    IN  IF parseApprovalPayload(event.payload) = Null THEN r1
        ELSE emit(r2, [Ev("approval-request") EXCEPT
                          !.kind = event.kind, !.payload = event.payload,
                          !.respond = k])

\* The approval branch of handleEvent: the promise it awaits is resolved by the
\* respond closure it hands to the consumer.
handleApprovalRequest(r0, event) ==
    LET r1 == onFirstToken(r0)
        k == Len(r1.s.approvals) + 1
        r2 == [r1 EXCEPT !.s.approvals = Append(@, Closure(event)),
                         !.s.awaiting = k]
    IN  IF parseApprovalPayload(event.payload) = Null THEN r1
        ELSE emit(r2, [Ev("approval-request") EXCEPT
                          !.kind = event.kind, !.payload = event.payload,
                          !.respond = k])

\* handleEvent taking thread/started in every thread state.
handleEventAnyThreadState(s, event) ==
    IF event.kind = ThreadStarted
    THEN emit([Enter(s) EXCEPT !.s.threadState =
                   [status |-> "ready", threadId |-> event.threadId, fut |-> 0]],
              [Ev("thread-ready") EXCEPT !.threadId = event.threadId])
    ELSE Enter(s)

\* handleEvent recording the id of every turn/started event of an active turn.
handleEventOverwritesTurnId(s, event) ==
    IF event.kind = ThreadStarted /\ s.threadState.status = "starting"
    THEN LET r1 == [Enter(s) EXCEPT !.s.threadState =
                        [status |-> "ready", threadId |-> event.threadId, fut |-> 0]]
             r2 == emit(r1, [Ev("thread-ready") EXCEPT !.threadId = event.threadId])
         IN  [r2 EXCEPT !.s.startFuts =
                  Settle(@, s.threadState.fut, "resolved", event.threadId)]
    ELSE IF event.kind = TurnStarted /\ event.turnId # "" /\ s.turnState.status = "active"
    THEN [Enter(s) EXCEPT !.s.turnState.turnId = event.turnId]
    ELSE IF event.kind = TurnCompleted THEN settleTurn(Enter(s), "resolved")
    ELSE Enter(s)

handleEvent(s, event) ==
    LET r0 == Enter(s) IN
    \* Thread started
    IF event.kind = ThreadStarted /\ s.threadState.status = "starting"
    THEN LET r1 == [r0 EXCEPT !.s.threadState =
                        [status |-> "ready", threadId |-> event.threadId, fut |-> 0]]
             r2 == emit(r1, [Ev("thread-ready") EXCEPT !.threadId = event.threadId])
         IN  [r2 EXCEPT !.s.startFuts =
                  Settle(@, s.threadState.fut, "resolved", event.threadId)]
    \* Turn started
    ELSE IF /\ event.kind = TurnStarted
            /\ event.turnId # ""
            /\ s.turnState.status = "active"
            /\ s.turnState.turnId = ""
    THEN [r0 EXCEPT !.s.turnState.turnId = event.turnId]
    \* Reasoning deltas
    ELSE IF event.kind \in REASONING_EVENT_KINDS
    THEN LET r1 == onFirstToken(r0)
             r2 == IF r1.s.turnState.status = "active" /\ ~r1.s.turnState.reasoningStarted
                   THEN [r1 EXCEPT !.s.turnState.reasoningStarted = TRUE] ELSE r1
             delta == extractDelta(event.payload)
         IN  IF event.kind = ReasoningSectionBreak
             THEN emit(r2, Ev("reasoning-section-break"))
             ELSE IF Truthy(delta)
             THEN emit(r2, [Ev("reasoning-delta") EXCEPT !.delta = delta.v])
             ELSE r2
    \* Assistant streaming delta
    ELSE IF event.kind = AgentMessageDelta
    THEN LET r1 == onFirstToken(r0)
             delta == extractDelta(event.payload)
             open == r1.s.turnState.status = "active" /\ ~r1.s.turnState.assistantLineOpen
             r2 == IF open THEN [r1 EXCEPT !.s.turnState.assistantLineOpen = TRUE] ELSE r1
             r3 == IF open /\ config.debug
                   THEN emit(r2, [Ev("debug-tag") EXCEPT !.tag = "response"]) ELSE r2
         IN  IF config.reasoningOnly THEN r1
             ELSE IF ~Truthy(delta) THEN r1
             ELSE emit(r3, [Ev("response-delta") EXCEPT !.delta = delta.v])
    \* Command execution output delta
    ELSE IF event.kind = CommandOutputDelta
    THEN LET r1 == onFirstToken(r0)
             delta == extractDelta(event.payload)
             open == /\ config.debug
                     /\ r1.s.turnState.status = "active"
                     /\ ~r1.s.turnState.commandOutputOpen
             r2 == IF open
                   THEN emit([r1 EXCEPT !.s.turnState.commandOutputOpen = TRUE],
                             [Ev("debug-tag") EXCEPT !.tag = "command"])
                   ELSE r1
         IN  IF Truthy(delta)
             THEN emit(r2, [Ev("command-output-delta") EXCEPT !.delta = delta.v])
             ELSE r1
    \* Approval requests
    ELSE IF event.kind \in APPROVAL_KINDS
    THEN handleApprovalRequest(r0, event)
    \* Turn completed
    ELSE IF event.kind = TurnCompleted
    THEN settleTurn(r0, "resolved")
    ELSE r0

\* The error message of a failed request.
RequestFailed(method) == "Request failed (" \o (IF method = "" THEN "unknown" ELSE method) \o ")"

\* handleGlobalMessage reporting every failed request as a generic error.
handleGlobalMessageGeneric(s, message) ==
    LET r1 == [Enter(s) EXCEPT !.s.pendingRequests = PendingDelete(@, message.id)]
        pending == PendingMethod(s.pendingRequests, message.id)
    IN  IF isResponse(message) /\ message.idType = "number"
        THEN IF message.error
             THEN emit(r1, [Ev("error") EXCEPT !.message = RequestFailed(pending)])
             ELSE r1
        ELSE IF message.method = Str("error")
        THEN emit(Enter(s), [Ev("error") EXCEPT !.message = "server"])
        ELSE Enter(s)

handleGlobalMessage(s, message) ==
    LET r0 == Enter(s)
        pending == PendingMethod(s.pendingRequests, message.id)
        r1 == [r0 EXCEPT !.s.pendingRequests = PendingDelete(@, message.id)]
    IN  IF isResponse(message)
        THEN IF message.idType = "number"
             THEN IF message.error
                  THEN IF pending = "thread/start" /\ s.threadState.status = "starting"
                       THEN [r1 EXCEPT !.s.threadState = InitThread,
                                       !.s.startFuts =
                                           Settle(@, s.threadState.fut, "rejected",
                                                  RequestFailed(pending))]
                       ELSE IF pending = "turn/start"
                       THEN settleTurn(r1, "rejected")
                       ELSE emit(r1, [Ev("error") EXCEPT !.message = RequestFailed(pending)])
                  ELSE r1
             ELSE r0
        ELSE IF isServerNotification(message)
        THEN IF message.method = Str("error")
             THEN emit(r0, [Ev("error") EXCEPT !.message = "server"])
             ELSE r0
        ELSE r0

\* handleProtocolError ending the process without settling any future.
handleProtocolErrorSettlesNothing(s) ==
    LET r2 == emit(Enter(s), [Ev("error") EXCEPT !.message = "protocol"])
    IN  [r2 EXCEPT !.s.bridgeStops = @ + 1, !.s.exited = TRUE]

handleProtocolError(s) ==
    LET r1 == settleTurn(Enter(s), "rejected")
        r2 == emit(r1, [Ev("error") EXCEPT !.message = "protocol"])
        r3 == IF r2.s.threadState.status = "starting"
              THEN [r2 EXCEPT !.s.threadState = InitThread,
                              !.s.startFuts =
                                  Settle(@, r2.s.threadState.fut, "rejected", "protocol")]
              ELSE r2
    IN  [r3 EXCEPT !.s.bridgeStops = @ + 1, !.s.exited = TRUE]

\* handleProcessExit treating the exit as fatal to the session.
handleProcessExitFatal(s) ==
    LET r == IF s.turnState.status = "active" THEN settleTurn(Enter(s), "rejected") ELSE Enter(s)
    IN  [r EXCEPT !.s.stopped = TRUE, !.s.bridgeStops = @ + 1]

handleProcessExit(s) ==
    IF s.turnState.status = "active" THEN settleTurn(Enter(s), "rejected") ELSE Enter(s)

\* ------------------------------------------------------------- scenarios
\* A step: the call or callback and its input.
Call(op) == [op |-> op, ev |-> NoBridgeEvent, msg |-> NoGlobalMessage, decision |-> "", k |-> 0]
OnEventOf(e) == [Call("onEvent") EXCEPT !.ev = e]
OnGlobalMessageOf(m) == [Call("onGlobalMessage") EXCEPT !.msg = m]
KeyOf(d) == [Call("key") EXCEPT !.decision = d]
RespondOf(k, d) == [Call("respond") EXCEPT !.k = k, !.decision = d]

EvThreadStarted == BridgeEvent(ThreadStarted, "T1", "", Notification(ThreadStarted))
EvTurnStarted == BridgeEvent(TurnStarted, "T1", "G1", Notification(TurnStarted))
EvTurnCompleted == BridgeEvent(TurnCompleted, "T1", "G1", Notification(TurnCompleted))
EvAgentDelta ==
    BridgeEvent(AgentMessageDelta, "T1", "G1", Payload(Undef, Str(AgentMessageDelta), "object", Str("Hi")))
EvCommandApproval ==
    BridgeEvent(CommandApproval, "T1", "G1", Payload(Num("7"), Str(CommandApproval), "object", Undef))
EvFileChangeApproval ==
    BridgeEvent(FileChangeApproval, "T1", "G1", Payload(Str("7"), Str(FileChangeApproval), "object", Undef))
EvMalformedApproval ==
    BridgeEvent(CommandApproval, "T1", "G1", Payload(Undef, Str(CommandApproval), "object", Undef))
MsgTurnStartFailed == GlobalMessage("number", 3, Undef, TRUE)
MsgErrorWithId == GlobalMessage("number", 1, Str("error"), FALSE)
MsgInitializeFailed == GlobalMessage("number", 1, Undef, TRUE)
MsgThreadStartFailed == GlobalMessage("number", 2, Undef, TRUE)
EvTokenUsage == BridgeEvent(TokenUsageUpdated, "T1", "G1", Notification(TokenUsageUpdated))
EvReasoningDelta ==
    BridgeEvent(ReasoningSummaryDelta, "T1", "G1",
                Payload(Undef, Str(ReasoningSummaryDelta), "object", Str("Hi")))
EvCommandOutput ==
    BridgeEvent(CommandOutputDelta, "T1", "G1",
                Payload(Undef, Str(CommandOutputDelta), "object", Str("Hi")))
EvCommandOutputEmpty ==
    BridgeEvent(CommandOutputDelta, "T1", "G1",
                Payload(Undef, Str(CommandOutputDelta), "object", Str("")))

\* The thread is started and a first turn submitted.
Opening ==
    <<Call("waitForThreadStart"), OnEventOf(EvThreadStarted), Call("runTurn")>>

EndToEnd ==
    Opening \o <<OnEventOf(EvTurnStarted), OnEventOf(EvAgentDelta), OnEventOf(EvTurnCompleted),
                 OnEventOf(EvTurnCompleted), Call("runTurn")>>
Resubmit == Opening \o <<Call("runTurn"), Call("onProcessExit"), Call("runTurn")>>
SettleRace ==
    Opening \o <<OnGlobalMessageOf(MsgTurnStartFailed), OnEventOf(EvTurnCompleted),
                 Call("onProcessExit"), Call("runTurn")>>
Restart ==
    <<Call("waitForThreadStart"), OnEventOf(EvThreadStarted), Call("waitForThreadStart"),
      Call("waitForThreadStart")>>
CommandApproved ==
    Opening \o <<OnEventOf(EvCommandApproval), KeyOf("accept"), OnEventOf(EvTurnCompleted)>>
FileChangeDeclined ==
    Opening \o <<OnEventOf(EvFileChangeApproval), KeyOf("decline"), OnEventOf(EvTurnCompleted)>>
ExitDuringApproval == Opening \o <<OnEventOf(EvFileChangeApproval), Call("onProcessExit")>>
Malformed == Opening \o <<OnEventOf(EvMalformedApproval), OnEventOf(EvTurnCompleted)>>
Deltas ==
    Opening \o <<OnEventOf(EvReasoningDelta), OnEventOf(EvCommandOutputEmpty),
                 OnEventOf(EvAgentDelta), OnEventOf(EvCommandOutput)>>
StartFailed == <<Call("waitForThreadStart"), OnGlobalMessageOf(MsgThreadStartFailed)>>
ProtocolErrorInTurn == Opening \o <<Call("onProtocolError")>>
ExitInTurn == Opening \o <<OnEventOf(EvTurnStarted), Call("onProcessExit")>>
InterruptEarly == Opening \o <<Call("interruptTurn"), OnEventOf(EvTurnStarted)>>
TurnBeforeReady == <<Call("runTurn"), Call("waitForThreadStart"), Call("runTurn")>>
Unclassified == Opening \o <<OnEventOf(EvTokenUsage), OnEventOf(EvTurnCompleted)>>
NotificationWithId == 
    <<Call("waitForThreadStart"), OnGlobalMessageOf(MsgErrorWithId),
      OnGlobalMessageOf(MsgInitializeFailed)>>
ThreadStartedTwice == 
    <<Call("waitForThreadStart"), OnEventOf(EvThreadStarted), OnEventOf(EvThreadStarted),
      Call("waitForThreadStart")>>
RespondTwice ==
    Opening \o <<OnEventOf(EvCommandApproval), RespondOf(1, "accept"), RespondOf(1, "accept")>>

Scenarios ==
    {EndToEnd, Resubmit, SettleRace, Restart, CommandApproved, FileChangeDeclined,
     ExitDuringApproval, Malformed, RespondTwice, Deltas, StartFailed,
     ProtocolErrorInTurn, ExitInTurn, InterruptEarly, TurnBeforeReady,
     Unclassified,
     NotificationWithId,
     ThreadStartedTwice}

IsPrefix(p, q) == Len(p) <= Len(q) /\ SubSeq(q, 1, Len(p)) = p

\* One entry of trace: the step, what it emitted and sent, what it returned.
Entry(tag, r) == [tag |-> tag, evs |-> r.evs, sent |-> r.sent, res |-> r.res, val |-> r.val]
OffEntry == [tag |-> Call("off"), evs |-> <<>>, sent |-> <<>>, res |-> "", val |-> ""]
Off == <<OffEntry>>
Tags(t) == [i \in 1..Len(t) |-> t[i].tag]
Follows(t) == \E sc \in Scenarios : IsPrefix(Tags(t), sc)
\* The run has followed scenario sc to its n-th step.
At(sc, n) == Len(trace) = n /\ Tags(trace) = SubSeq(sc, 1, n)

RECURSIVE Flatten(_)
Flatten(ss) == IF ss = <<>> THEN <<>> ELSE Head(ss) \o Flatten(Tail(ss))
\* All AppEvents emitted along trace.
Log == Flatten([i \in 1..Len(trace) |-> trace[i].evs])

\* --------------------------------------------------------------- machine
\* The session after construction.
NewSession ==
    /\ threadState = InitSession.threadState
    /\ turnState = InitSession.turnState
    /\ nextId = InitSession.nextId
    /\ pendingRequests = InitSession.pendingRequests
    /\ stopped = InitSession.stopped
    /\ bridgeStarted = InitSession.bridgeStarted
    /\ bridgeStops = InitSession.bridgeStops
    /\ exited = InitSession.exited
    /\ startFuts = InitSession.startFuts
    /\ turnFuts = InitSession.turnFuts
    /\ approvals = InitSession.approvals
    /\ awaiting = InitSession.awaiting
    /\ phase = InitSession.phase
    /\ approvalRespondRef = InitSession.approvalRespondRef
    /\ trace = <<>>
\* The writer after construction.
NewWriter ==
    /\ writer = InitWriter
    /\ emitted = <<>>
    /\ returned = Return("constructor", Void)
\* No turn run, no text fed and no model list asked for.
NewAux ==
    /\ history = NoHistory
    /\ feed = NoFeed
    /\ models = NoModels

Init ==
    /\ config \in [approvalMode : ApprovalModes, reasoningOnly : BOOLEAN, debug : BOOLEAN]
    /\ NewSession
    /\ NewWriter
    /\ token = NoTable
    /\ NewAux

\* The session and its consumer after the call or callback tag with result r.
SessionStep(r, tag) ==
    /\ threadState' = r.s.threadState
    /\ turnState' = r.s.turnState
    /\ nextId' = r.s.nextId
    /\ pendingRequests' = r.s.pendingRequests
    /\ stopped' = r.s.stopped
    /\ bridgeStarted' = r.s.bridgeStarted
    /\ bridgeStops' = r.s.bridgeStops
    /\ exited' = r.s.exited
    /\ startFuts' = r.s.startFuts
    /\ turnFuts' = r.s.turnFuts
    /\ approvals' = r.s.approvals
    /\ awaiting' = r.s.awaiting
    /\ phase' = r.s.phase
    /\ approvalRespondRef' = r.s.approvalRespondRef
    /\ config' = config
    /\ trace' = IF trace # Off /\ Follows(Append(trace, Entry(tag, r)))
                THEN Append(trace, Entry(tag, r)) ELSE Off

\* The call or callback tag runs to completion with result r.
Step(r, tag) ==
    /\ r.s.nextId <= MaxId + 1
    /\ Len(r.s.approvals) <= MaxApprovals
    /\ SessionStep(r, tag)
    /\ UNCHANGED <<writerVars, token, auxVars>>

\* The program runs until it exits; every stop() in it is followed by exit().
Running(s) == ~s.exited /\ ~s.stopped
\* The transport hands over the next event when the promise handleEvent
\* returned for the previous one has resolved.
Deliverable(s) == Running(s) /\ s.awaiting = 0

\* The steps the program can take in state s, each with its result.
StepOf(tag, r) == [call |-> tag, result |-> r]
WaitForThreadStartSteps(s) ==
    IF Running(s) THEN {StepOf(Call("waitForThreadStart"), waitForThreadStart(s))} ELSE {}
RunTurnSteps(s) ==
    IF Running(s) THEN {StepOf(Call("runTurn"), runTurn(s, text)) : text \in Texts} ELSE {}
InterruptTurnSteps(s) ==
    IF Running(s) THEN {StepOf(Call("interruptTurn"), interruptTurn(s))} ELSE {}
StopSteps(s) == IF ~s.exited THEN {StepOf(Call("stop"), stop(s))} ELSE {}
OnEventSteps(s) ==
    IF Deliverable(s) THEN {StepOf(OnEventOf(e), handleEvent(s, e)) : e \in InEvents} ELSE {}
OnGlobalMessageSteps(s) ==
    IF Running(s)
    THEN {StepOf(OnGlobalMessageOf(m), handleGlobalMessage(s, m)) : m \in InMessages(s)}
    ELSE {}
OnProtocolErrorSteps(s) ==
    IF Running(s) THEN {StepOf(Call("onProtocolError"), handleProtocolError(s))} ELSE {}
OnProcessExitSteps(s) ==
    IF Running(s) THEN {StepOf(Call("onProcessExit"), handleProcessExit(s))} ELSE {}
KeySteps(s) ==
    IF Running(s) /\ s.phase = "approval"
    THEN {StepOf(KeyOf(d), useKeyboard(s, d)) : d \in Decisions} ELSE {}

Steps(s) ==
    WaitForThreadStartSteps(s) \cup RunTurnSteps(s) \cup InterruptTurnSteps(s)
        \cup StopSteps(s) \cup OnEventSteps(s) \cup OnGlobalMessageSteps(s)
        \cup OnProtocolErrorSteps(s) \cup OnProcessExitSteps(s) \cup KeySteps(s)

CallWaitForThreadStart == \E x \in WaitForThreadStartSteps(Cur) : Step(x.result, x.call)
CallRunTurn == \E x \in RunTurnSteps(Cur) : Step(x.result, x.call)
CallInterruptTurn == \E x \in InterruptTurnSteps(Cur) : Step(x.result, x.call)
CallStop == \E x \in StopSteps(Cur) : Step(x.result, x.call)
OnEvent == \E x \in OnEventSteps(Cur) : Step(x.result, x.call)
OnGlobalMessage == \E x \in OnGlobalMessageSteps(Cur) : Step(x.result, x.call)
OnProtocolError == \E x \in OnProtocolErrorSteps(Cur) : Step(x.result, x.call)
OnProcessExit == \E x \in OnProcessExitSteps(Cur) : Step(x.result, x.call)
KeyPress == \E x \in KeySteps(Cur) : Step(x.result, x.call)

Next ==
    \/ CallWaitForThreadStart
    \/ CallRunTurn
    \/ CallInterruptTurn
    \/ CallStop
    \/ OnEvent
    \/ OnGlobalMessage
    \/ OnProtocolError
    \/ OnProcessExit
    \/ KeyPress

Spec == Init /\ [][Next]_vars

\* A consumer that keeps every respond callback it was handed and calls any
\* of them at any time, up to MaxSends decisions each.
RespondSteps(s) ==
    IF Running(s)
    THEN {StepOf(RespondOf(k, d), respond(Enter(s), k, d)) :
            k \in {i \in DOMAIN s.approvals : s.approvals[i].sends < MaxSends},
            d \in Decisions}
    ELSE {}
ConsumerRespond == \E x \in RespondSteps(Cur) : Step(x.result, x.call)

NextAnyConsumer == Next \/ ConsumerRespond

SpecAnyConsumer == Init /\ [][NextAnyConsumer]_vars

\* A transport that still reports a decode failure after stop(), for output
\* the backend wrote before it was stopped.
LateProtocolErrorSteps(s) ==
    IF s.stopped /\ ~s.exited
    THEN {StepOf(Call("onProtocolError"), handleProtocolError(s))} ELSE {}
LateProtocolError == \E x \in LateProtocolErrorSteps(Cur) : Step(x.result, x.call)

NextLateCallbacks == Next \/ LateProtocolError

SpecLateCallbacks == Init /\ [][NextLateCallbacks]_vars

\* ================================================================ claims
Types(evs) == {evs[i].type : i \in DOMAIN evs}
Count(evs, type) == Cardinality({i \in DOMAIN evs : evs[i].type = type})
\* The futures of futs that the step with result futs2 settled.
NewlySettled(futs, futs2) ==
    {i \in DOMAIN futs : futs[i].state = "pending" /\ futs2[i].state # "pending"}
TurnStartRequest(s, text) ==
    [Msg("turn/start", s.nextId) EXCEPT !.threadId = s.threadState.threadId, !.text = text]

\* C1: runTurn() called while a turn is active throws, sends no message, emits
\* no event and leaves the whole state as it was; runTurn() called on the ready
\* thread while the turn is idle (in particular after the turn has settled, by
\* whatever path) is accepted: it returns a pending future, makes the turn
\* active and sends one turn/start request for the thread.
C1_RunTurnExclusive ==
    \A x \in RunTurnSteps(Cur) :
        /\ turnState.status = "active" =>
              /\ x.result.res = "throw"
              /\ x.result.sent = <<>>
              /\ x.result.evs = <<>>
              /\ x.result.s = Cur
        /\ threadState.status = "ready" /\ turnState.status = "idle" =>
              /\ x.result.res = "pending"
              /\ \E text \in Texts : x.result.sent = <<TurnStartRequest(Cur, text)>>
              /\ x.result.s.turnState.status = "active"
              /\ x.result.s.turnFuts = Append(turnFuts, Pending)

\* A second runTurn() threw while the first turn was active; the backend then
\* exited, the turn's future is rejected, and runTurn() is accepted again.
C1_Witness ==
    /\ At(Resubmit, 5)
    /\ trace[4].res = "throw"
    /\ trace[5].evs = <<Ev("turn-complete")>>
    /\ turnFuts[1].state = "rejected"
    /\ \A x \in RunTurnSteps(Cur) : x.result.res = "pending"

\* C2: resolve or reject is called at most once on every turn future; a step
\* emits turn-complete exactly when it settles a turn future, once; the
\* future of the active turn is pending and every other one is settled.
C2_SettleOnce ==
    /\ \A i \in DOMAIN turnFuts :
          /\ turnFuts[i].calls <= 1
          /\ turnFuts[i].state = "pending" <=>
                (turnState.status = "active" /\ turnState.fut = i)
    /\ \A x \in Steps(Cur) :
          /\ Count(x.result.evs, "turn-complete") =
                Cardinality(NewlySettled(turnFuts, x.result.s.turnFuts))
          /\ Count(x.result.evs, "turn-complete") <= 1

\* The turn-start request failed, then turn-completed arrived and the backend
\* exited: the future was rejected by the first and turn-complete emitted once.
C2_Witness ==
    /\ At(SettleRace, 6)
    /\ turnFuts[1] = [state |-> "rejected", value |-> "", calls |-> 1]
    /\ Count(Log, "turn-complete") = 1
    /\ trace[4].evs = <<Ev("turn-complete")>>

\* C3: a turn-completed notification handled while the turn is idle changes
\* no state, settles no future, sends nothing and emits no event.
C3_TurnCompletedWhileIdle ==
    turnState.status = "idle" =>
        \A e \in InEvents : e.kind = TurnCompleted => handleEvent(Cur, e) = Enter(Cur)

\* A second turn-completed was delivered after the turn had settled.
C3_Witness ==
    /\ At(EndToEnd, 7)
    /\ trace[6].evs = <<Ev("turn-complete")>>
    /\ trace[7].evs = <<>>
    /\ turnState.status = "idle"
    /\ turnFuts[1] = [state |-> "resolved", value |-> "", calls |-> 1]

\* C4: while the thread is ready, waitForThreadStart() returns a future
\* resolved with the stored thread id, which is the id the start future was
\* resolved with; it sends nothing, allocates no request id and changes no
\* state.  The stored id is the one of the thread-started event that made the
\* thread ready, whichever id that is.
C4_StartIdempotent ==
    /\ threadState.status = "ready" =>
          /\ \A x \in WaitForThreadStartSteps(Cur) :
                x.result = Result(Cur, <<>>, <<>>, "resolved", threadState.threadId)
          /\ \E i \in DOMAIN startFuts :
                startFuts[i] =
                    [state |-> "resolved", value |-> threadState.threadId, calls |-> 1]
    /\ threadState.status = "starting" =>
          \A t \in {"T1", "T2"} :
              LET e == BridgeEvent(ThreadStarted, t, "", Notification(ThreadStarted))
                  r == waitForThreadStart(handleEvent(Cur, e).s)
              IN  r.res = "resolved" /\ r.val = t /\ r.sent = <<>>

\* Two calls of waitForThreadStart() on the ready thread both returned the id
\* of the thread-started event.
C4_Witness ==
    /\ At(Restart, 4)
    /\ trace[3].res = "resolved" /\ trace[3].val = "T1" /\ trace[3].sent = <<>>
    /\ trace[4].res = "resolved" /\ trace[4].val = "T1" /\ trace[4].sent = <<>>
    /\ nextId = 3

\* C5: with reasoning-only and debug off, the run start, thread-started,
\* runTurn, turn-started, one assistant delta "Hi", turn-completed has emitted
\* exactly thread-ready, waiting-start, waiting-stop, response-delta("Hi"),
\* turn-complete, in that order; the start future is resolved with the
\* backend's thread id and the turn future is resolved.
C5_EndToEndOrder ==
    At(EndToEnd, 6) /\ ~config.reasoningOnly /\ ~config.debug =>
        /\ Log = <<[Ev("thread-ready") EXCEPT !.threadId = "T1"], Ev("waiting-start"),
                   Ev("waiting-stop"), [Ev("response-delta") EXCEPT !.delta = "Hi"],
                   Ev("turn-complete")>>
        /\ startFuts = <<[state |-> "resolved", value |-> "T1", calls |-> 1]>>
        /\ turnFuts = <<[state |-> "resolved", value |-> "", calls |-> 1]>>

\* The end-to-end run has been followed to the turn-completed notification.
C5_Witness ==
    /\ At(EndToEnd, 6)
    /\ ~config.reasoningOnly /\ ~config.debug
    /\ Len(Log) = 5

\* The response shape of each approval kind.
ResponseShape(kind) ==
    IF kind = CommandApproval THEN "commandExecutionApprovalResponse"
    ELSE "fileChangeApprovalResponse"
DecisionMessage(kind, id, decision) ==
    [Msg(ResponseShape(kind), 0) EXCEPT !.rid = id, !.decision = decision]
WellFormed(e) ==
    /\ e.kind \in APPROVAL_KINDS
    /\ e.payload.form = "object"
    /\ e.payload.id.t \in {"number", "string"}
    /\ e.payload.method.t = "string"
WellFormedApprovals == {e \in InEvents : WellFormed(e)}

\* C6: the decision sent for an approval request carries the id of the request
\* payload and the consumer's accept or decline, in the response shape of the
\* event's kind: for a decision the consumer gives while handling the event
\* (auto-approve, deny), for one given by key afterwards (prompt), and for
\* every call of a respond callback handed out so far.
C6_ApprovalCorrelation ==
    /\ Deliverable(Cur) =>
          \A e \in WellFormedApprovals :
              LET r == handleEvent(Cur, e)
                  Answer(d) == <<DecisionMessage(e.kind, e.payload.id, d)>>
              IN  /\ config.approvalMode = "auto-approve" => r.sent = Answer("accept")
                  /\ config.approvalMode = "deny" => r.sent = Answer("decline")
                  /\ config.approvalMode = "prompt" =>
                        /\ r.sent = <<>>
                        /\ \A d \in Decisions : useKeyboard(r.s, d).sent = Answer(d)
    /\ \A k \in DOMAIN approvals, d \in Decisions :
          respond(Enter(Cur), k, d).sent =
              <<DecisionMessage(approvals[k].kind, approvals[k].payload.id, d)>>

\* A file-change approval with the string id "7" was declined by key.
C6_Witness ==
    /\ At(FileChangeDeclined, 5)
    /\ config.approvalMode = "prompt"
    /\ trace[4].evs[Len(trace[4].evs)].payload.id = Str("7")
    /\ trace[5].sent = <<DecisionMessage(FileChangeApproval, Str("7"), "decline")>>

\* C7: no respond callback has sent more than one decision.
C7_OneDecisionPerApproval == \A k \in DOMAIN approvals : approvals[k].sends <= 1

Unresolved(s) == {k \in DOMAIN s.approvals : ~s.approvals[k].resolved}

\* C8 as stated: while an approval is unresolved no step emits an
\* approval-request or a turn-complete event.
C8_NothingWhileUnresolved ==
    Unresolved(Cur) # {} =>
        \A x \in Steps(Cur) : Types(x.result.evs) \cap {"approval-request", "turn-complete"} = {}

\* C8: while an approval is unresolved no event of the stream is handled and
\* no step emits an approval-request; a turn-complete is emitted only by a
\* process exit, a protocol error or a global message.
C8_HeadOfLineBlocking ==
    Unresolved(Cur) # {} =>
        /\ OnEventSteps(Cur) = {}
        /\ \A x \in Steps(Cur) :
              /\ "approval-request" \notin Types(x.result.evs)
              /\ "turn-complete" \in Types(x.result.evs) =>
                    x.call.op \in {"onProcessExit", "onProtocolError", "onGlobalMessage"}

\* The backend exited while the approval was unresolved: turn-complete was
\* emitted, the approval is still unresolved and no event can be delivered.
C8_Witness ==
    /\ At(ExitDuringApproval, 5)
    /\ config.approvalMode = "prompt"
    /\ Unresolved(Cur) = {1}
    /\ "approval-request" \in Types(trace[4].evs)
    /\ trace[5].evs = <<Ev("turn-complete")>>
    /\ OnEventSteps(Cur) = {}

\* C9: a well-formed approval request is answered while it is handled with
\* accept in auto-approve mode and decline in deny mode: afterwards the next
\* event can be delivered and no respond callback is stored.  In prompt mode
\* nothing is sent, the callback is stored and no event can be delivered, until
\* a key gives the decision.  Outside prompt mode nothing is ever stored or
\* awaited.
C9_ApprovalModes ==
    /\ config.approvalMode # "prompt" => awaiting = 0 /\ approvalRespondRef = 0
    /\ Deliverable(Cur) =>
          \A e \in WellFormedApprovals :
              LET r == handleEvent(Cur, e)
                  k == Len(r.s.approvals)
                  Answered(d) ==
                      /\ Len(r.sent) = 1 /\ r.sent[1].decision = d
                      /\ r.s.approvals[k].resolved
                      /\ Deliverable(r.s)
                      /\ r.s.approvalRespondRef = 0
              IN  /\ k = Len(approvals) + 1
                  /\ config.approvalMode = "auto-approve" => Answered("accept")
                  /\ config.approvalMode = "deny" => Answered("decline")
                  /\ config.approvalMode = "prompt" =>
                        /\ r.sent = <<>>
                        /\ r.s.approvalRespondRef = k /\ r.s.awaiting = k
                        /\ ~Deliverable(r.s)
                        /\ r.s.phase = "approval"
                        /\ \A d \in Decisions :
                              LET r2 == useKeyboard(r.s, d)
                              IN  /\ Len(r2.sent) = 1 /\ r2.sent[1].decision = d
                                  /\ Deliverable(r2.s)
                                  /\ r2.s.approvalRespondRef = 0

\* In auto-approve mode a command approval was accepted while it was handled,
\* and the turn-completed behind it was then processed.
C9_Witness ==
    /\ At(CommandApproved, 4)
    /\ config.approvalMode = "auto-approve"
    /\ trace[4].sent = <<DecisionMessage(CommandApproval, Num("7"), "accept")>>
    /\ approvalRespondRef = 0
    /\ Deliverable(Cur)

\* Approval requests whose id is missing or neither number nor string, or
\* whose method is missing or no string.
MalformedPayloads(k) ==
    {Payload(i, m, "object", Undef) :
        i \in {Undef, Null, Num("7"), [t |-> "boolean", v |-> "true"]},
        m \in {Undef, Num("1"), Str(k)}}
MalformedApprovals ==
    {e \in UNION {{BridgeEvent(k, "T1", "G1", p) : p \in MalformedPayloads(k)} :
                    k \in APPROVAL_KINDS} : ~WellFormed(e)}
IsMalformed(e) == e.kind \in APPROVAL_KINDS /\ ~WellFormed(e)

\* C10: handling a malformed approval request emits no approval-request and no
\* error, sends nothing, throws nothing, creates no respond callback and
\* leaves event delivery open.
C10_MalformedApproval ==
    Deliverable(Cur) =>
        \A e \in MalformedApprovals \cup {ev \in InEvents : IsMalformed(ev)} :
            LET r == handleEvent(Cur, e)
            IN  /\ Types(r.evs) \subseteq {"waiting-stop"}
                /\ r.sent = <<>>
                /\ r.res = ""
                /\ r.s.approvals = approvals
                /\ r.s.approvalRespondRef = approvalRespondRef
                /\ Deliverable(r.s)

\* An approval request without id was handled during the turn, and the
\* turn-completed behind it was processed.
C10_Witness ==
    /\ At(Malformed, 5)
    /\ trace[4].evs = <<Ev("waiting-stop")>>
    /\ trace[4].sent = <<>>
    /\ approvals = <<>>
    /\ trace[5].evs = <<Ev("turn-complete")>>
    /\ turnFuts[1].state = "resolved"

\* ------------------------------------------------------------------ deltas
\* The event kinds that carry a delta, and the AppEvent each is emitted as.
DeltaKinds == {ReasoningSummaryDelta, ReasoningRawDelta, AgentMessageDelta, CommandOutputDelta}
DeltaType(kind) ==
    IF kind \in REASONING_EVENT_KINDS THEN "reasoning-delta"
    ELSE IF kind = AgentMessageDelta THEN "response-delta"
    ELSE "command-output-delta"
IsDeltaEvent(e) == e.type \in {"reasoning-delta", "response-delta", "command-output-delta"}
DeltaEvents(evs) == SelectSeq(evs, IsDeltaEvent)
\* Payloads whose params is an object, null or absent and whose delta is
\* absent, null, a number, a boolean, the empty or a non-empty string; and the
\* payload that is JSON null.
AnyDeltaPayloads(k) ==
    {Payload(Undef, Str(k), pr, d) :
        pr \in {"object", "absent", "null"},
        d \in {Undef, Null, Num("1"), [t |-> "boolean", v |-> "true"], Str(""), Str("Hi"),
               Str("0")}}
    \cup {NullPayload}
\* params.delta of a payload (Undef when there is no params object).
DeltaOf(p) == IF p.form = "object" /\ p.params = "object" THEN p.delta ELSE Undef

ErrorResponse(id) == GlobalMessage("number", id, Undef, TRUE)
Tracked(s, method) == {q.id : q \in {x \in s.pendingRequests : x.method = method}}
Methods(sent) == [i \in DOMAIN sent |-> sent[i].method]

\* C12: while the thread is starting, an error response to a tracked
\* thread/start request rejects the start future, sets the thread back to
\* init, emits and sends nothing and leaves the turn alone; waitForThreadStart
\* called next sends initialize, initialized and a thread/start request with
\* fresh ids and returns a new pending future.
C12_ThreadStartFailure ==
    Running(Cur) /\ threadState.status = "starting" =>
        \A id \in Tracked(Cur, "thread/start") :
            LET r == handleGlobalMessage(Cur, ErrorResponse(id))
                again == waitForThreadStart(r.s)
            IN  /\ r.evs = <<>>
                /\ r.sent = <<>>
                /\ r.s.threadState = InitThread
                /\ r.s.turnState = turnState
                /\ r.s.startFuts[threadState.fut].state = "rejected"
                /\ r.s.startFuts[threadState.fut].calls = 1
                /\ id \notin Tracked(r.s, "thread/start")
                /\ again.res = "pending"
                /\ Methods(again.sent) = <<"initialize", "initialized", "thread/start">>
                /\ again.sent[1].id = nextId
                /\ again.sent[3].id = nextId + 1
                /\ again.s.threadState.status = "starting"
                /\ again.s.threadState.fut = Len(startFuts) + 1
                /\ again.s.startFuts[Len(startFuts) + 1] = Pending

\* The thread/start request (id 2) failed: the start future is rejected, the
\* thread is back at init and nothing was emitted.
C12_Witness ==
    /\ At(StartFailed, 2)
    /\ trace[2].evs = <<>>
    /\ threadState = InitThread
    /\ startFuts[1].state = "rejected"
    /\ waitForThreadStart(Cur).sent[3].id = 4

\* C13: while a turn is active, an error response to a tracked turn/start
\* request rejects the future of that turn, sets the turn idle, emits
\* turn-complete and no error event, and leaves the thread ready; runTurn
\* called next is accepted and sends a turn/start request.
C13_TurnStartFailure ==
    Running(Cur) /\ turnState.status = "active" =>
        \A id \in Tracked(Cur, "turn/start") :
            LET r == handleGlobalMessage(Cur, ErrorResponse(id))
            IN  /\ r.s.turnFuts[turnState.fut].state = "rejected"
                /\ r.s.turnFuts[turnState.fut].calls = 1
                /\ r.s.turnState = IdleTurn
                /\ r.s.threadState = threadState
                /\ threadState.status = "ready"
                /\ r.evs = <<Ev("turn-complete")>>
                /\ r.sent = <<>>
                /\ \A text \in Texts :
                      LET again == runTurn(r.s, text)
                      IN  /\ again.res = "pending"
                          /\ again.sent = <<TurnStartRequest(r.s, text)>>
                          /\ again.s.turnState.status = "active"
                          /\ again.s.turnState.fut = Len(turnFuts) + 1

\* The turn/start request (id 3) of the active turn failed: its future is
\* rejected, the turn is idle, the thread ready, and runTurn is accepted.
C13_Witness ==
    /\ At(SettleRace, 4)
    /\ trace[3].res = "pending"
    /\ trace[4].evs = <<Ev("turn-complete")>>
    /\ turnFuts[1].state = "rejected"
    /\ turnState = IdleTurn
    /\ threadState.status = "ready"
    /\ runTurn(Cur, "hi").res = "pending"

\* C14: every error response with a numeric id either settles the start
\* future (when it answers a tracked thread/start request) or the turn future
\* (when it answers a tracked turn/start request), or else emits exactly one
\* error event, settles nothing and leaves thread state and turn state alone.
C14_NoErrorResponseLost ==
    Running(Cur) =>
        \A id \in {q.id : q \in pendingRequests} \cup {0} :
            LET r == handleGlobalMessage(Cur, ErrorResponse(id))
                method == PendingMethod(pendingRequests, id)
                starts == NewlySettled(startFuts, r.s.startFuts)
                turns == NewlySettled(turnFuts, r.s.turnFuts)
            IN  \/ method = "thread/start" /\ Cardinality(starts) = 1 /\ turns = {}
                \/ method = "turn/start" /\ Cardinality(turns) = 1 /\ starts = {}
                \/ /\ Count(r.evs, "error") = 1
                   /\ starts = {} /\ turns = {}
                   /\ r.s.threadState = threadState
                   /\ r.s.turnState = turnState

\* ------------------------------------------------- fatal and exit handling
\* The futures still pending in futs.
PendingIn(futs) == {i \in DOMAIN futs : futs[i].state = "pending"}
\* start() was only called on an uninitialized or ready thread (its stated
\* precondition): the only pending start future is the one the thread holds.
StartCalledAsRequired(s) ==
    PendingIn(s.startFuts) \subseteq
        (IF s.threadState.status = "starting" THEN {s.threadState.fut} ELSE {})

C16_ProcessExit ==
    Running(Cur) =>
        LET r == handleProcessExit(Cur)
        IN  /\ r.sent = <<>>
            /\ turnState.status = "active" =>
                  /\ r.s.turnFuts[turnState.fut].state = "rejected"
                  /\ r.s.turnFuts[turnState.fut].calls = 1
                  /\ r.evs = <<Ev("turn-complete")>>
                  /\ r.s = [Cur EXCEPT !.turnState = IdleTurn,
                                       !.turnFuts = r.s.turnFuts,
                                       !.phase = r.s.phase]
                  /\ Running(r.s)
            /\ turnState.status = "idle" =>
                  /\ r.s = Cur
                  /\ r.evs = <<>>

\* The backend exited during the first turn, after turn-started: the turn
\* future is rejected and the turn idle, the thread is still ready and the
\* session still running.
C16_Witness ==
    /\ At(ExitInTurn, 5)
    /\ trace[5].evs = <<Ev("turn-complete")>>
    /\ turnFuts[1].state = "rejected"
    /\ turnState = IdleTurn
    /\ threadState.status = "ready"
    /\ ~stopped /\ ~exited /\ bridgeStops = 0

\* ------------------------------------------------------------------- stop
\* C17: once stop() has been called, however often and whatever else
\* happened, the transport's stop operation has been performed exactly once.
C17_TransportStoppedOnce == stopped => bridgeStops = 1

\* -------------------------------------------------------------- interrupt
InterruptRequest(s) ==
    [Msg("turn/interrupt", s.nextId) EXCEPT
        !.threadId = s.threadState.threadId, !.turnId = s.turnState.turnId]
Interruptible(s) ==
    s.threadState.status = "ready" /\ s.turnState.status = "active" /\ s.turnState.turnId # ""
\* The steps that may settle a turn: a turn/completed event, an error
\* response, a protocol error, a process exit.
MaySettleTurn(call) ==
    \/ call.op = "onEvent" /\ call.ev.kind = TurnCompleted
    \/ call.op = "onGlobalMessage" /\ call.msg.error
    \/ call.op \in {"onProtocolError", "onProcessExit"}

\* C18: interruptTurn() emits nothing; unless the thread is ready, the turn
\* active and its turnId recorded it sends nothing and changes nothing;
\* otherwise it sends one turn/interrupt request carrying the thread id and
\* the turn id, allocates its request id and tracks it, and changes nothing
\* else: the turn with its turnId, flags and future is as before.  No step
\* other than a turn/completed event, an error response, a protocol error or
\* a process exit settles a turn future.
C18_InterruptTurn ==
    /\ Running(Cur) =>
          LET r == interruptTurn(Cur)
          IN  /\ r.evs = <<>>
              /\ ~Interruptible(Cur) => r.sent = <<>> /\ r.s = Cur
              /\ Interruptible(Cur) =>
                    /\ r.sent = <<InterruptRequest(Cur)>>
                    /\ r.s = [Cur EXCEPT !.nextId = nextId + 1,
                                         !.pendingRequests =
                                             PendingSet(@, nextId, "turn/interrupt")]
                    /\ r.s.turnState = turnState
                    /\ r.s.turnFuts = turnFuts
                    /\ turnFuts[turnState.fut].state = "pending"
    /\ \A x \in Steps(Cur) :
          NewlySettled(turnFuts, x.result.s.turnFuts) # {} => MaySettleTurn(x.call)

\* interruptTurn() was called before the backend announced the turn and did
\* nothing; now that turn-started has recorded the turnId it sends the
\* request for thread T1 and turn G1.
C18_Witness ==
    /\ At(InterruptEarly, 5)
    /\ trace[4].sent = <<>>
    /\ trace[4].evs = <<>>
    /\ Interruptible(Cur)
    /\ interruptTurn(Cur).sent =
          <<[Msg("turn/interrupt", 4) EXCEPT !.threadId = "T1", !.turnId = "G1"]>>

\* C19: while the thread is init or starting the turn is idle, and runTurn()
\* throws "Thread not ready.", emits no event, sends no message, takes no
\* request id and leaves the whole state as it was.
C19_RunTurnNotReady ==
    Running(Cur) /\ threadState.status \in {"init", "starting"} =>
        /\ turnState = IdleTurn
        /\ \A text \in Texts :
              LET r == runTurn(Cur, text)
              IN  /\ r.res = "throw"
                  /\ r.val = "Thread not ready."
                  /\ r.evs = <<>>
                  /\ r.sent = <<>>
                  /\ r.s = Cur

\* runTurn() threw on the uninitialized thread and again on the starting
\* thread; the only ids taken are those of the handshake.
C19_Witness ==
    /\ At(TurnBeforeReady, 3)
    /\ trace[1].res = "throw" /\ trace[1].evs = <<>> /\ trace[1].sent = <<>>
    /\ trace[3].res = "throw" /\ trace[3].evs = <<>> /\ trace[3].sent = <<>>
    /\ threadState.status = "starting"
    /\ turnState = IdleTurn
    /\ nextId = 3

\* --------------------------------------------------------- reasoning-only
DeltaEvent(kind, text) == BridgeEvent(kind, "T1", "G1", Payload(Undef, Str(kind), "object", Str(text)))

\* C20: under the reasoning-only flag an assistant-message delta emits no
\* event at all and hands nothing to the MarkdownWriter, while a reasoning or
\* command-output delta is emitted as its delta event.
C20_AssistantSuppressed ==
    Deliverable(Cur) /\ config.reasoningOnly =>
        /\ \A p \in AnyDeltaPayloads(AgentMessageDelta) :
              LET r == handleEvent(Cur, BridgeEvent(AgentMessageDelta, "T1", "G1", p))
              IN  r.evs = <<>> /\ r.md = <<>>
        /\ \A k \in DeltaKinds \ {AgentMessageDelta} :
              DeltaEvents(handleEvent(Cur, DeltaEvent(k, "Hi")).evs) =
                  <<[Ev(DeltaType(k)) EXCEPT !.delta = "Hi"]>>

\* ------------------------------------------------------------- categories
\* The methods named by the client, and two it has no name for.
KnownMethods ==
    {ThreadStarted, TurnStarted, TurnCompleted, ItemCompleted, AgentMessageDelta,
     ReasoningSummaryDelta, ReasoningSectionBreak, ReasoningRawDelta, CommandOutputDelta,
     CommandApproval, FileChangeApproval, ServerError, AccountRateLimitsUpdated}
AnyMethods == KnownMethods \cup {TokenUsageUpdated, "item/started"}
\* The categories a method falls into.
Categories(m) ==
    {c \in {"lifecycle", "reasoning", "assistant", "command-output", "approval",
            "server-error", "no-op"} :
        \/ c = "lifecycle" /\ getLifecycleEventType(m) # "null"
        \/ c = "reasoning" /\ m \in REASONING_EVENT_KINDS
        \/ c = "assistant" /\ m = AgentMessageDelta
        \/ c = "command-output" /\ m = CommandOutputDelta
        \/ c = "approval" /\ isApprovalKind(m)
        \/ c = "server-error" /\ isServerErrorMethod(m)
        \/ c = "no-op" /\ isGlobalNoopNotification(m)}
IsUnclassified(m) == Categories(m) = {}
AnyPayloads(m) == {NullPayload, Payload(Num("7"), Str(m), "object", Str("Hi"))}

UnclassifiedMethods == {x \in AnyMethods : IsUnclassified(x)}
\* Every known method falls into one category and every other method into
\* none; only the four lifecycle kinds have a lifecycle name; no method is
\* both a server error and a no-op.
OneCategoryEach ==
    \A m \in AnyMethods :
        /\ Cardinality(Categories(m)) = IF m \in KnownMethods THEN 1 ELSE 0
        /\ getLifecycleEventType(m) # "null" <=>
              m \in {ThreadStarted, TurnStarted, TurnCompleted, ItemCompleted}
        /\ ~(isServerErrorMethod(m) /\ isGlobalNoopNotification(m))

\* C21: every known method falls into exactly one category and every other
\* method into none; getLifecycleEventType is "null" for every method that is
\* not one of the four lifecycle kinds; no method is both a server error and
\* a no-op; an event or a global notification with an unclassified method
\* emits nothing, sends nothing and changes no state.
C21_MethodCategories ==
    /\ OneCategoryEach
    /\ \A m \in UnclassifiedMethods :
          /\ Deliverable(Cur) =>
                \A p \in AnyPayloads(m) :
                    handleEvent(Cur, BridgeEvent(m, "T1", "G1", p)) = Enter(Cur)
          /\ Running(Cur) =>
                handleGlobalMessage(Cur, GlobalMessage("undefined", 0, Str(m), FALSE))
                    = Enter(Cur)

\* An event with the unknown method thread/tokenUsage/updated was delivered
\* during the turn: nothing was emitted, the turn stayed as it was and the
\* turn-completed behind it resolved the turn.
C21_Witness ==
    /\ At(Unclassified, 5)
    /\ IsUnclassified(trace[4].tag.ev.kind)
    /\ trace[4].evs = <<>> /\ trace[4].sent = <<>>
    /\ trace[5].evs = <<Ev("turn-complete")>>
    /\ turnFuts[1].state = "resolved"

\* ------------------------------------------- responses and notifications
\* Message objects with every kind of id, with and without a method.
AnyMessages ==
    {GlobalMessage(t, 1, m, FALSE) :
        t \in {"undefined", "number", "string", "null"},
        m \in {Undef, Null, Num("1"), Str("error"), Str(TokenUsageUpdated)}}
\* Messages with a numeric id: that of a pending request, or 0, which no
\* request has.
NumberedMessages(s) ==
    {GlobalMessage("number", i, m, e) :
        i \in {r.id : r \in s.pendingRequests} \cup {0},
        m \in {Undef, Str("error")}, e \in BOOLEAN}
WithoutId(message) == [message EXCEPT !.idType = "undefined", !.id = 0]

\* No message is both a response and a notification; one with a method is
\* a notification; one with a numeric id and no method is a response.
ExclusiveKinds ==
    \A message \in AnyMessages :
        /\ ~(isResponse(message) /\ isServerNotification(message))
        /\ message.method # Undef =>
              isServerNotification(message) /\ ~isResponse(message)
        /\ message.idType = "number" /\ message.method = Undef =>
              isResponse(message) /\ ~isServerNotification(message)

\* C22: no message is both a response and a notification; a message with a
\* method is a notification and not a response, and is handled as the same
\* message without its id: no pending request is forgotten; a message with
\* a numeric id and no method is a response, and its id leaves the table.
C22_ResponseOrNotification ==
    /\ ExclusiveKinds
    /\ Running(Cur) =>
          \A message \in NumberedMessages(Cur) :
              LET r == handleGlobalMessage(Cur, message) IN
              IF message.method # Undef
              THEN /\ r = handleGlobalMessage(Cur, WithoutId(message))
                   /\ r.s.pendingRequests = pendingRequests
              ELSE /\ r.s.pendingRequests = PendingDelete(pendingRequests, message.id)
                   /\ ~message.error => r.evs = <<>>

\* A server error notification carrying the id of the pending initialize
\* request was reported as a server error and left the request in the table:
\* the error response behind it still found the request's method.
C22_Witness ==
    /\ At(NotificationWithId, 3)
    /\ trace[2].evs = <<[Ev("error") EXCEPT !.message = "server"]>>
    /\ trace[3].evs = <<[Ev("error") EXCEPT !.message = RequestFailed("initialize")]>>
    /\ PendingMethod(pendingRequests, 1) = ""
    /\ PendingMethod(pendingRequests, 2) = "thread/start"

\* ---------------------------------------------------------- thread/started
\* thread/started events for the thread ids the backend may name.
ThreadStartedEvents ==
    {BridgeEvent(ThreadStarted, t, g, p) :
        t \in ThreadIds \cup {"T2"}, g \in TurnIds,
        p \in {Notification(ThreadStarted), NullPayload}}

\* C30: a thread/started event delivered while the thread is starting makes
\* the thread ready with the event's thread id, emits thread-ready once and
\* resolves the start future with that id, leaving the rest of the session
\* alone; in
\* every other thread state it changes nothing, emits nothing and keeps the
\* stored thread id.
C30_ThreadStarted ==
    Deliverable(Cur) =>
        \A event \in ThreadStartedEvents :
            LET r == handleEvent(Cur, event) IN
            IF threadState.status = "starting"
            THEN /\ r.s.threadState.status = "ready"
                 /\ r.s.threadState.threadId = event.threadId
                 /\ r.evs = <<[Ev("thread-ready") EXCEPT !.threadId = event.threadId]>>
                 /\ r.sent = <<>>
                 /\ startFuts[threadState.fut].state = "pending"
                 /\ r.s.startFuts[threadState.fut].state = "resolved"
                 /\ r.s.startFuts[threadState.fut].value = event.threadId
                 /\ \A i \in DOMAIN startFuts :
                        i # threadState.fut => r.s.startFuts[i] = startFuts[i]
                 /\ [r.s EXCEPT !.threadState = threadState, !.startFuts = startFuts,
                                 !.phase = phase] = Cur
            ELSE /\ r = Enter(Cur)
                 /\ r.s.threadState.threadId = threadState.threadId

\* thread/started arrived twice: the first made the thread ready and resolved
\* the start future, the second emitted nothing, and a later
\* waitForThreadStart still answers with the id of the first.
C30_Witness ==
    /\ At(ThreadStartedTwice, 4)
    /\ trace[2].evs = <<[Ev("thread-ready") EXCEPT !.threadId = "T1"]>>
    /\ trace[3].evs = <<>>
    /\ trace[4].res = "resolved" /\ trace[4].val = "T1"
    /\ threadState.status = "ready" /\ threadState.threadId = "T1"
    /\ startFuts[1].state = "resolved" /\ startFuts[1].value = "T1"
    /\ Count(Log, "thread-ready") = 1

\* ========================================================= MarkdownWriter
MaxText == 4
MaxParses == 2

\* The characters \s matches inside a line.
WhiteSpace == {" ", "\t", "\r"}
\* The characters of a line the dot of a regular expression does not match.
LineTerminators == {"\r"}
RECURSIVE Run(_, _)
\* The length of the longest prefix of text made of characters of set.
Run(text, set) ==
    IF text # <<>> /\ Head(text) \in set THEN 1 + Run(Tail(text), set) ELSE 0
Drop(text, n) == SubSeq(text, n + 1, Len(text))
RECURSIVE trimEnd(_)
trimEnd(text) ==
    IF text # <<>> /\ text[Len(text)] \in WhiteSpace \cup {NL}
    THEN trimEnd(SubSeq(text, 1, Len(text) - 1)) ELSE text
\* line.trim() === ""
IsBlank(line) == Run(line, WhiteSpace) = Len(line)
RECURSIVE join(_)
\* lines.join("\n")
join(lines) ==
    IF lines = <<>> THEN <<>>
    ELSE IF Len(lines) = 1 THEN lines[1]
    ELSE lines[1] \o <<NL>> \o join(Tail(lines))
\* text.indexOf(c), counted from 1; 0 when c does not occur.
IndexOf(text, c) ==
    IF \E i \in DOMAIN text : text[i] = c
    THEN CHOOSE i \in DOMAIN text : text[i] = c /\ \A j \in 1..(i - 1) : text[j] # c
    ELSE 0

\* line.match(/^(\s*)((`{3,})|(~{3,}))\s*(.*)$/): leading white space, the
\* longest run of one fence character, white space, and a rest the dot
\* matches (a rest holding a carriage return is not matched).
FenceMatch(line) ==
    LET indent == Run(line, WhiteSpace)
        body == Drop(line, indent)
        char == IF body # <<>> /\ Head(body) \in {Backtick, Tilde} THEN Head(body) ELSE ""
        len == Run(body, {char})
        rest == Drop(body, len + Run(Drop(body, len), WhiteSpace))
    IN  IF len >= 3 /\ \A i \in DOMAIN rest : rest[i] \notin LineTerminators
        THEN [matched |-> TRUE, char |-> char, len |-> len, lang |-> trimEnd(rest)]
        ELSE [matched |-> FALSE, char |-> "", len |-> 0, lang |-> <<>>]

\* A string handed to onLine: the frame that opens or closes a code block
\* (text: the label), a code line behind the gutter (text: the line), what
\* marked made of a paragraph (text: the paragraph handed to marked.parse) or
\* the raw paragraph (text); lines are the lines the chunk was made from.
Chunk(kind, lines, text) == [kind |-> kind, lines |-> lines, text |-> text]
\* A writer call under way: the writer, the chunks handed to onLine so far and
\* the number of marked.parse calls so far.
WriterCall(w) == [w |-> w, out |-> <<>>, parses |-> 0]
onLine(r, chunk) == [r EXCEPT !.out = Append(@, chunk)]

\* flushParagraph dropping the paragraph marked.parse throws on.
flushParagraphDrops(r, bad) ==
    IF r.w.paragraphBuffer = <<>> THEN r
    ELSE LET r1 == [r EXCEPT !.w.paragraphBuffer = <<>>, !.parses = @ + 1]
         IN  IF r1.parses \in bad THEN r1
             ELSE onLine(r1, Chunk("rendered", r.w.paragraphBuffer,
                                   join(r.w.paragraphBuffer) \o <<NL>>))

\* bad: the marked.parse calls of this writer call that throw, by number.
flushParagraph(r, bad) ==
    IF r.w.paragraphBuffer = <<>> THEN r
    ELSE LET text == join(r.w.paragraphBuffer) \o <<NL>>
             r1 == [r EXCEPT !.w.paragraphBuffer = <<>>, !.parses = @ + 1]
         IN  IF r1.parses \in bad
             THEN onLine(r1, Chunk("raw", r.w.paragraphBuffer, trimEnd(text)))
             ELSE onLine(r1, Chunk("rendered", r.w.paragraphBuffer, text))

\* processLine closing the block on every fence.
processLineAnyFence(r, line, bad) ==
    LET fenceMatch == FenceMatch(line) IN
    IF fenceMatch.matched /\ ~r.w.inCodeBlock
    THEN onLine([flushParagraph(r, bad) EXCEPT
                    !.w.inCodeBlock = TRUE,
                    !.w.codeBlockFenceChar = fenceMatch.char,
                    !.w.codeBlockFenceLen = fenceMatch.len,
                    !.w.codeBlockLang = fenceMatch.lang],
                Chunk("open", <<line>>, fenceMatch.lang))
    ELSE IF fenceMatch.matched
    THEN onLine([r EXCEPT !.w.inCodeBlock = FALSE], Chunk("close", <<line>>, <<>>))
    ELSE IF r.w.inCodeBlock
    THEN onLine(r, Chunk("code", <<line>>, line))
    ELSE IF IsBlank(line) THEN flushParagraph(r, bad)
    ELSE [r EXCEPT !.w.paragraphBuffer = Append(@, line)]

\* processLine opening a block without finalizing the paragraph before it.
processLineOpensUnflushed(r, line, bad) ==
    LET fenceMatch == FenceMatch(line) IN
    IF fenceMatch.matched /\ ~r.w.inCodeBlock
    THEN onLine([r EXCEPT !.w.inCodeBlock = TRUE,
                          !.w.codeBlockFenceChar = fenceMatch.char,
                          !.w.codeBlockFenceLen = fenceMatch.len,
                          !.w.codeBlockLang = fenceMatch.lang],
                Chunk("open", <<line>>, fenceMatch.lang))
    ELSE IF /\ fenceMatch.matched
            /\ fenceMatch.char = r.w.codeBlockFenceChar
            /\ fenceMatch.len >= r.w.codeBlockFenceLen
    THEN onLine([r EXCEPT !.w.inCodeBlock = FALSE], Chunk("close", <<line>>, <<>>))
    ELSE IF r.w.inCodeBlock
    THEN onLine(r, Chunk("code", <<line>>, line))
    ELSE IF IsBlank(line) THEN flushParagraph(r, bad)
    ELSE [r EXCEPT !.w.paragraphBuffer = Append(@, line)]

processLine(r, line, bad) ==
    LET fenceMatch == FenceMatch(line) IN
    IF fenceMatch.matched /\ ~r.w.inCodeBlock
    THEN onLine([flushParagraph(r, bad) EXCEPT
                    !.w.inCodeBlock = TRUE,
                    !.w.codeBlockFenceChar = fenceMatch.char,
                    !.w.codeBlockFenceLen = fenceMatch.len,
                    !.w.codeBlockLang = fenceMatch.lang],
                Chunk("open", <<line>>, fenceMatch.lang))
    ELSE IF /\ fenceMatch.matched
            /\ fenceMatch.char = r.w.codeBlockFenceChar
            /\ fenceMatch.len >= r.w.codeBlockFenceLen
    THEN onLine([r EXCEPT !.w.inCodeBlock = FALSE], Chunk("close", <<line>>, <<>>))
    ELSE IF r.w.inCodeBlock
    THEN onLine(r, Chunk("code", <<line>>, line))
    ELSE IF IsBlank(line) THEN flushParagraph(r, bad)
    ELSE [r EXCEPT !.w.paragraphBuffer = Append(@, line)]

RECURSIVE drain(_, _)
\* The loop of addDelta: one line after the other leaves the buffer.
drain(r, bad) ==
    LET nlIdx == IndexOf(r.w.buffer, NL) IN
    IF nlIdx = 0 THEN r
    ELSE drain(processLine([r EXCEPT !.w.buffer = Drop(@, nlIdx)],
                           SubSeq(r.w.buffer, 1, nlIdx - 1), bad), bad)
\* addDelta taking at most one line out of the buffer.
addDeltaOneLine(w, text, bad) ==
    LET r == WriterCall([w EXCEPT !.buffer = @ \o text])
        nlIdx == IndexOf(r.w.buffer, NL)
    IN  IF nlIdx = 0 THEN r
        ELSE processLine([r EXCEPT !.w.buffer = Drop(@, nlIdx)],
                         SubSeq(r.w.buffer, 1, nlIdx - 1), bad)

addDelta(w, text, bad) == drain(WriterCall([w EXCEPT !.buffer = @ \o text]), bad)

\* flush leaving the partial line in the buffer.
flushKeepsBuffer(w, bad) ==
    IF w.buffer # <<>>
    THEN flushParagraph(processLine(WriterCall(w), w.buffer, bad), bad)
    ELSE flushParagraph(WriterCall(w), bad)

flush(w, bad) ==
    IF w.buffer # <<>>
    THEN flushParagraph([processLine(WriterCall(w), w.buffer, bad) EXCEPT !.w.buffer = <<>>],
                        bad)
    ELSE flushParagraph(WriterCall(w), bad)

\* getBuffer leaving out the partial line.
getBufferParagraphOnly(w) == join(w.paragraphBuffer)

getBuffer(w) ==
    join(w.paragraphBuffer \o (IF w.buffer # <<>> THEN <<w.buffer>> ELSE <<>>))
reset(w) == InitWriter

\* The deltas of a stream: fences of both characters and of several lengths,
\* a two-character run, text, a line end, two paragraphs in one delta, and
\* an indented fence with a tag between spaces.
DeltaTexts ==
    {<<Backtick, Backtick, Backtick>>, <<Backtick, Backtick, Backtick, Backtick>>,
     <<Backtick, Backtick>>, <<Tilde, Tilde, Tilde>>, <<"a">>, <<NL>>,
     <<"a", NL, NL, "a", NL, NL>>, <<" ", Tilde, Tilde, Tilde, " ", "a", " ", NL>>}
Oracles == SUBSET (1..MaxParses)
RECURSIVE Sum(_)
Sum(ns) == IF ns = <<>> THEN 0 ELSE Head(ns) + Sum(Tail(ns))
\* The number of characters the writer holds.
Held(w) == Len(w.buffer) + Sum([i \in DOMAIN w.paragraphBuffer |-> Len(w.paragraphBuffer[i])])

\* The call of the writer named call, with result r and return value val.
WriterStep(call, r, val) ==
    /\ Held(r.w) <= MaxText
    /\ r.parses <= MaxParses
    /\ writer' = r.w
    /\ emitted' = r.out
    /\ returned' = Return(call, val)
    /\ UNCHANGED <<sessionVars, token, auxVars>>

AddDelta ==
    \E text \in DeltaTexts, bad \in Oracles :
        WriterStep("addDelta", addDelta(writer, text, bad), Void)
Flush == \E bad \in Oracles : WriterStep("flush", flush(writer, bad), Void)
GetBuffer ==
    WriterStep("getBuffer", WriterCall(writer), [t |-> "string", v |-> getBuffer(writer)])
Reset == WriterStep("reset", WriterCall(reset(writer)), Void)

InitMarkdown ==
    /\ config = [approvalMode |-> "prompt", reasoningOnly |-> FALSE, debug |-> FALSE]
    /\ NewSession
    /\ NewWriter
    /\ token = NoTable
    /\ NewAux
NextMarkdown == AddDelta \/ Flush \/ GetBuffer \/ Reset

SpecMarkdown == InitMarkdown /\ [][NextMarkdown]_vars

\* ============================================================ the writer
\* Lines made of an indent, a run of one fence character and a tag; lang is
\* the tag without the white space around it.
FenceTags ==
    {[text |-> <<>>, lang |-> <<>>], [text |-> <<"a">>, lang |-> <<"a">>],
     [text |-> <<" ", "a", " ">>, lang |-> <<"a">>],
     [text |-> <<" ", "a", " ", "a">>, lang |-> <<"a", " ", "a">>]}
Indents == {<<>>, <<" ", " ">>}
RunLens == 2..5
FenceLine(indent, char, n, tag) == indent \o [i \in 1..n |-> char] \o tag.text

PlainLines == {<<"a">>, <<"a", " ">>, <<" ", "a">>, <<Backtick, Backtick>>}
BlankLines == {<<>>, <<" ">>, <<" ", " ">>}
IsPlain(line) == ~IsBlank(line) /\ ~FenceMatch(line).matched
\* The chunks of out made of a paragraph.
Paragraphs(out) == SelectSeq(out, LAMBDA c : c.kind \in {"rendered", "raw"})

\* C24: outside a code block a completed line that is neither blank nor a
\* fence joins the paragraph buffer and nothing is emitted; a blank line, and
\* flush(), with a paragraph buffered emit one chunk made of the whole
\* paragraph (the partial line included when flush() finds a plain one) and
\* nothing of it stays buffered; after every flush() getBuffer() is empty; a
\* blank line and flush() with nothing buffered emit nothing.
C24_ParagraphFinalization ==
    \A bad \in {{}, {1}} :
        /\ ~writer.inCodeBlock =>
             /\ \A line \in PlainLines :
                    LET r == processLine(WriterCall(writer), line, bad) IN
                    /\ r.out = <<>>
                    /\ r.w = [writer EXCEPT !.paragraphBuffer = Append(@, line)]
             /\ \A line \in BlankLines :
                    LET r == processLine(WriterCall(writer), line, bad) IN
                    /\ r.w = [writer EXCEPT !.paragraphBuffer = <<>>]
                    /\ IF writer.paragraphBuffer = <<>> THEN r.out = <<>>
                       ELSE /\ Len(r.out) = 1
                            /\ r.out[1].kind \in {"rendered", "raw"}
                            /\ r.out[1].lines = writer.paragraphBuffer
             /\ LET r == flush(writer, bad)
                    paragraph == writer.paragraphBuffer
                        \o (IF IsPlain(writer.buffer) THEN <<writer.buffer>> ELSE <<>>)
                IN  IF paragraph = <<>> THEN Paragraphs(r.out) = <<>>
                    ELSE /\ Len(Paragraphs(r.out)) = 1
                         /\ Paragraphs(r.out)[1].lines = paragraph
        /\ LET r == flush(writer, bad) IN
           /\ getBuffer(r.w) = <<>>
           /\ r.w.buffer = <<>> /\ r.w.paragraphBuffer = <<>>
           /\ writer.buffer = <<>> /\ writer.paragraphBuffer = <<>> =>
                 r.out = <<>> /\ r.w = writer

\* flush() found a completed line in the paragraph buffer and a plain partial
\* line: it emitted one chunk made of both and left nothing buffered.
C24_Witness ==
    /\ returned.call = "flush"
    /\ Len(emitted) = 1
    /\ emitted[1].kind = "rendered"
    /\ emitted[1].lines = <<(<<"a">>), <<Backtick, Backtick>>>>
    /\ getBuffer(writer) = <<>>
    /\ ~writer.inCodeBlock

RECURSIVE SplitLines(_)
\* The completed lines of text, and what follows its last line end.
SplitLines(text) ==
    IF IndexOf(text, NL) = 0 THEN <<>>
    ELSE <<SubSeq(text, 1, IndexOf(text, NL) - 1)>> \o SplitLines(Drop(text, IndexOf(text, NL)))
RECURSIVE Partial(_)
Partial(text) == IF IndexOf(text, NL) = 0 THEN text ELSE Partial(Drop(text, IndexOf(text, NL)))
\* The part of the stream the writer still holds.
HeldStream(w) ==
    Flatten([i \in DOMAIN w.paragraphBuffer |-> w.paragraphBuffer[i] \o <<NL>>]) \o w.buffer
NonBlank(lines) == SelectSeq(lines, LAMBDA l : ~IsBlank(l))
\* The lines the chunks of out were made from.
ChunkLines(out) == Flatten([i \in DOMAIN out |-> out[i].lines])

\* C26: getBuffer() returns the lines of the paragraph buffer joined by line
\* ends, followed (after a line end, when there are such lines) by the partial
\* line when that is not empty; addDelta leaves every non-blank completed
\* line either in a chunk or in the paragraph buffer, never in both, in the
\* order of arrival, so getBuffer() holds nothing that was emitted; a
\* getBuffer() call leaves the writer as it was and emits nothing.
C26_LivePeek ==
    /\ getBuffer(writer) =
          IF writer.buffer = <<>> THEN join(writer.paragraphBuffer)
          ELSE IF writer.paragraphBuffer = <<>> THEN writer.buffer
          ELSE join(writer.paragraphBuffer) \o <<NL>> \o writer.buffer
    /\ \A text \in DeltaTexts, bad \in {{}, {1}} :
          LET r == addDelta(writer, text, bad)
              stream == HeldStream(writer) \o text
          IN  /\ r.w.buffer = Partial(stream)
              /\ NonBlank(ChunkLines(r.out)) \o r.w.paragraphBuffer
                    = NonBlank(SplitLines(stream))
              /\ HeldStream(r.w) =
                    Drop(stream, Len(stream) - Len(HeldStream(r.w)))
    /\ returned.call = "getBuffer" =>
          /\ returned.val = [t |-> "string", v |-> getBuffer(writer)]
          /\ emitted = <<>>

\* getBuffer() was called with a completed line in the paragraph buffer and a
\* partial line behind it, and returned the two with a line end between.
C26_Witness ==
    /\ returned.call = "getBuffer"
    /\ returned.val.v = <<"a", NL, "a">>
    /\ writer.paragraphBuffer = <<(<<"a">>)>>
    /\ writer.buffer = <<"a">>

\* C27: a finalization of a non-empty paragraph buffer empties the buffer,
\* touches nothing else and emits one chunk made of the whole paragraph: what
\* marked made of it when marked.parse returns, its raw text when marked.parse
\* throws; so in every addDelta and flush call there is one chunk for each
\* paragraph handed to marked.parse, raw exactly for those it threw on.
C27_ParagraphNeverDropped ==
    /\ writer.paragraphBuffer # <<>> =>
          \A bad \in {{}, {1}} :
              LET r == flushParagraph(WriterCall(writer), bad) IN
              /\ r.w = [writer EXCEPT !.paragraphBuffer = <<>>]
              /\ Len(r.out) = 1
              /\ r.out[1].lines = writer.paragraphBuffer
              /\ r.out[1].kind = IF 1 \in bad THEN "raw" ELSE "rendered"
              /\ r.out[1].text =
                    IF 1 \in bad THEN trimEnd(join(writer.paragraphBuffer))
                    ELSE join(writer.paragraphBuffer) \o <<NL>>
    /\ \A bad \in Oracles :
          \A r \in {flush(writer, bad)} \cup {addDelta(writer, text, bad) : text \in DeltaTexts} :
              /\ Len(Paragraphs(r.out)) = r.parses
              /\ \A i \in 1..r.parses :
                    Paragraphs(r.out)[i].kind = IF i \in bad THEN "raw" ELSE "rendered"

\* One delta ended two paragraphs; marked.parse returned for the first and
\* threw on the second: the first was emitted rendered, the second raw, and
\* nothing is left in the paragraph buffer.
C27_Witness ==
    /\ returned.call = "addDelta"
    /\ Len(emitted) = 2
    /\ emitted[1].kind = "rendered"
    /\ emitted[2] = Chunk("raw", <<(<<"a">>)>>, <<"a">>)
    /\ writer.paragraphBuffer = <<>>

\* A fence line that closes the block of writer w.
Closes(w, line) ==
    /\ FenceMatch(line).matched
    /\ FenceMatch(line).char = w.codeBlockFenceChar
    /\ FenceMatch(line).len >= w.codeBlockFenceLen
CodeChunk(line) == Chunk("code", <<line>>, line)

\* C29: while the writer is inside a code block the paragraph buffer is
\* empty; a completed line that does not close the block, a blank one
\* included, is emitted at once as one code chunk and changes nothing in the
\* writer; a delta of several such lines emits one chunk per line, in the
\* order of the lines.
C29_CodeLinesEmittedAtOnce ==
    writer.inCodeBlock =>
        /\ writer.paragraphBuffer = <<>>
        /\ \A bad \in {{}, {1}} :
              /\ \A line \in PlainLines \cup BlankLines
                        \cup {<<Backtick, Backtick, Backtick>>, <<Tilde, Tilde, Tilde>>} :
                    ~Closes(writer, line) =>
                        LET r == processLine(WriterCall(writer), line, bad) IN
                        r.out = <<CodeChunk(line)>> /\ r.w = writer
              /\ \A text \in DeltaTexts :
                    LET lines == SplitLines(writer.buffer \o text)
                        r == addDelta(writer, text, bad)
                    IN  (\A i \in DOMAIN lines : ~Closes(writer, lines[i])) =>
                            /\ r.out = [i \in DOMAIN lines |-> CodeChunk(lines[i])]
                            /\ r.w = [writer EXCEPT !.buffer = Partial(@ \o text)]

\* Inside a block one delta brought four lines, two of them blank: each was
\* emitted as a code chunk of its own, in order, and the paragraph buffer is
\* empty.
C29_Witness ==
    /\ writer.inCodeBlock
    /\ returned.call = "addDelta"
    /\ emitted = <<CodeChunk(<<"a">>), CodeChunk(<<>>), CodeChunk(<<"a">>), CodeChunk(<<>>)>>
    /\ writer.paragraphBuffer = <<>>

\* ======================================================== renderer.table
MaxCols == 2
MaxRows == 1

\* U+001B, the escape character, by name.
ESC == "ESC"
\* A style escape: ESC [ parameters m.
Escape(params) == <<ESC, "[">> \o params \o <<"m">>
\* chalk's styles: the text between the opening and the closing escapes when
\* colors are on, the text alone when they are off.
dim(color, s) == IF color THEN Escape(<<"2">>) \o s \o Escape(<<"2", "2">>) ELSE s
boldCyan(color, s) ==
    IF color
    THEN Escape(<<"1">>) \o Escape(<<"3", "6">>) \o s
            \o Escape(<<"3", "9">>) \o Escape(<<"2", "2">>)
    ELSE s

\* stripAnsi leaving every character in.
stripAnsiNothing(s) == s

RECURSIVE stripAnsi(_)
\* s.replace(/\x1b\[[0-9;]*m/g, "")
stripAnsi(s) ==
    LET params == Run(Drop(s, 2), {"0", "1", "2", "3", "4", "5", "6", "7", "8", "9", ";"}) IN
    IF s = <<>> THEN <<>>
    ELSE IF /\ Len(s) >= params + 3
            /\ s[1] = ESC /\ s[2] = "[" /\ s[params + 3] = "m"
    THEN stripAnsi(Drop(s, params + 3))
    ELSE <<Head(s)>> \o stripAnsi(Tail(s))

Spaces(n) == [i \in 1..n |-> " "]
Max(ns) == CHOOSE n \in ns : \A m \in ns : m <= n
pad(s, w, a) ==
    LET gap == Max({0, w - Len(stripAnsi(s))}) IN
    IF a = "right" THEN Spaces(gap) \o s
    ELSE IF a = "center" THEN Spaces(gap \div 2) \o s \o Spaces((gap + 1) \div 2)
    ELSE s \o Spaces(gap)

RECURSIVE joinWith(_, _)
\* cells.join(sep)
joinWith(cells, sep) ==
    IF cells = <<>> THEN <<>>
    ELSE IF Len(cells) = 1 THEN cells[1]
    ELSE cells[1] \o sep \o joinWith(Tail(cells), sep)

\* renderer.table: the column widths, the padded cells of the header and of
\* every body row, and the text made of them. A cell of the token is what
\* parseInline made of it (text) and the number of its visible characters.
renderTable(t) ==
    LET headerCells == [ci \in DOMAIN t.header |-> boldCyan(t.color, t.header[ci].text)]
        bodyRows == [ri \in DOMAIN t.rows |-> [ci \in DOMAIN t.header |-> t.rows[ri][ci].text]]
        colWidths ==
            [ci \in DOMAIN t.header |->
                Max({Len(stripAnsi(headerCells[ci]))}
                    \cup {Len(stripAnsi(bodyRows[ri][ci])) : ri \in DOMAIN bodyRows})]
        padded(cells) == [ci \in DOMAIN cells |-> pad(cells[ci], colWidths[ci], t.align[ci])]
        fmtRow(cells) == <<" ", " ">> \o joinWith(padded(cells), dim(t.color, <<" ", "|", " ">>))
        rule == <<" ", " ">>
                  \o joinWith([ci \in DOMAIN colWidths |->
                                  dim(t.color, [i \in 1..colWidths[ci] |-> "-"])],
                              dim(t.color, <<"-", "+", "-">>))
    IN  [colWidths |-> colWidths,
         cells |-> <<padded(headerCells)>> \o [ri \in DOMAIN bodyRows |-> padded(bodyRows[ri])],
         text |-> fmtRow(headerCells) \o <<NL>> \o rule \o <<NL>>
                    \o Flatten([ri \in DOMAIN bodyRows |-> fmtRow(bodyRows[ri]) \o <<NL>>])]

Cell(text, visible) == [text |-> text, visible |-> visible]
HeaderCells == {Cell(<<"A">>, 1), Cell(<<"B", "B">>, 2)}
\* Body cells: plain text, bold text of four characters, an empty cell.
BodyCells ==
    {Cell(<<"x">>, 1),
     Cell(Escape(<<"1">>) \o <<"y", "y", "y", "y">> \o Escape(<<"2", "2">>), 4),
     Cell(<<>>, 0)}
\* The align values of the columns: none, or one of the three, in turn.
Aligns(cols) ==
    {[ci \in 1..cols |-> "null"], [ci \in 1..cols |-> "right"],
     [ci \in 1..cols |-> IF ci % 2 = 1 THEN "center" ELSE "left"],
     [ci \in 1..cols |-> IF ci % 2 = 1 THEN "left" ELSE "center"]}
TableTokens ==
    UNION {[header : [1..cols -> HeaderCells], rows : [1..rows -> [1..cols -> BodyCells]],
            align : Aligns(cols), color : BOOLEAN, out : {NoOut}] :
              cols \in 1..MaxCols, rows \in 0..MaxRows}

Table ==
    /\ token.out = NoOut
    /\ token' = [token EXCEPT !.out = renderTable(token)]
    /\ UNCHANGED <<sessionVars, writerVars, auxVars>>

InitTable ==
    /\ config = [approvalMode |-> "prompt", reasoningOnly |-> FALSE, debug |-> FALSE]
    /\ NewSession
    /\ NewWriter
    /\ token \in TableTokens
    /\ NewAux
NextTable == Table

SpecTable == InitTable /\ [][NextTable]_vars

\* The cells of row ri of the rendered table as they were before padding, and
\* their visible lengths: row 1 is the header in chalk's style.
Unpadded(t, ri, ci) ==
    IF ri = 1 THEN boldCyan(t.color, t.header[ci].text) ELSE t.rows[ri - 1][ci].text
VisibleLen(t, ri, ci) == IF ri = 1 THEN t.header[ci].visible ELSE t.rows[ri - 1][ci].visible

\* C28: in a rendered table the width of every column is the largest number
\* of visible characters (style escapes not counted) among its header cell
\* and its body cells, and every cell is padded with spaces to that width:
\* after the cell when the column is aligned left or not at all, before it
\* when aligned right, floor(gap/2) before and ceil(gap/2) after when
\* centered.
C28_TableWidths ==
    token.out # NoOut =>
        /\ \A ci \in DOMAIN token.header :
              /\ \A ri \in 1..(Len(token.rows) + 1) :
                    VisibleLen(token, ri, ci) <= token.out.colWidths[ci]
              /\ \E ri \in 1..(Len(token.rows) + 1) :
                    VisibleLen(token, ri, ci) = token.out.colWidths[ci]
        /\ Len(token.out.cells) = Len(token.rows) + 1
        /\ \A ri \in DOMAIN token.out.cells, ci \in DOMAIN token.header :
              LET gap == token.out.colWidths[ci] - VisibleLen(token, ri, ci)
                  a == token.align[ci]
                  before == IF a = "right" THEN gap
                            ELSE IF a = "center" THEN gap \div 2 ELSE 0
                  after == IF a = "right" THEN 0
                           ELSE IF a = "center" THEN gap - (gap \div 2) ELSE gap
              IN  token.out.cells[ri][ci]
                    = Spaces(before) \o Unpadded(token, ri, ci) \o Spaces(after)

\* A centered column with the styled header A over a bold cell of four
\* visible characters: the column is four wide and the header has one space
\* before it and two after.
C28_Witness ==
    /\ token.out # NoOut
    /\ token.color
    /\ token.align[1] = "center"
    /\ token.header[1] = Cell(<<"A">>, 1)
    /\ token.out.colWidths[1] = 4
    /\ token.out.cells[1][1] = <<" ">> \o boldCyan(TRUE, <<"A">>) \o <<" ", " ">>

\* ============================================ the stream of several turns
MaxTurns == 2

\* The delta texts of a stream, and their characters.
StreamTexts == {"Hi", "Hi\n", "~~~\n"}
Chars(text) ==
    IF text = "Hi" THEN <<"H", "i">>
    ELSE IF text = "Hi\n" THEN <<"H", "i", NL>>
    ELSE IF text = "~~~\n" THEN <<Tilde, Tilde, Tilde, NL>>
    ELSE <<>>
StreamEvents ==
    {EvThreadStarted, EvTurnCompleted}
        \cup {DeltaEvent(AgentMessageDelta, text) : text \in StreamTexts}

RECURSIVE ApplyMd(_, _, _)
\* The calls the event callback made of the writer, one after the other.
ApplyMd(r, calls, bad) ==
    IF calls = <<>> THEN r
    ELSE LET w == r.w
             r1 == IF Head(calls).call = "addDelta"
                   THEN addDelta(w, Chars(Head(calls).text), bad)
                   ELSE flush(w, bad)
         IN  ApplyMd([r1 EXCEPT !.out = r.out \o @], Tail(calls), bad)

\* A call or callback of the session whose events reach the writer.
StreamStep(r, tag) ==
    \E bad \in Oracles :
        LET m == ApplyMd(WriterCall(writer), r.md, bad) IN
        /\ r.s.nextId <= MaxId + MaxTurns
        /\ Held(m.w) <= MaxText
        /\ SessionStep(r, tag)
        /\ writer' = m.w
        /\ emitted' = m.out
        /\ returned' = IF r.md = <<>> THEN returned
                       ELSE Return(r.md[Len(r.md)].call, Void)
        /\ UNCHANGED <<token, auxVars>>
\* The backend streams the deltas of a turn while the turn is active.
StreamEventSteps(s) ==
    IF Deliverable(s)
    THEN {StepOf(OnEventOf(e), handleEvent(s, e)) :
            e \in {x \in StreamEvents :
                      x.kind = AgentMessageDelta => s.turnState.status = "active"}}
    ELSE {}

StreamWaitForThreadStart ==
    \E x \in WaitForThreadStartSteps(Cur) : StreamStep(x.result, x.call)
StreamRunTurn == \E x \in RunTurnSteps(Cur) : StreamStep(x.result, x.call)
StreamOnEvent == \E x \in StreamEventSteps(Cur) : StreamStep(x.result, x.call)
NextStream == StreamWaitForThreadStart \/ StreamRunTurn \/ StreamOnEvent

SpecStream == Init /\ [][NextStream]_vars

\* C25: whenever an assistant delta is the first of its turn to reach the
\* writer, the writer's partial line and paragraph buffer are empty and it is
\* not inside a code block.
C25_ResetAtTurnStart ==
    Deliverable(Cur) /\ turnState.status = "active" /\ ~turnState.assistantLineOpen =>
        \A e \in StreamEvents :
            (\E i \in DOMAIN handleEvent(Cur, e).md :
                handleEvent(Cur, e).md[i].call = "addDelta") =>
                /\ writer.buffer = <<>>
                /\ writer.paragraphBuffer = <<>>
                /\ ~writer.inCodeBlock

\* ===================================================== a sequence of turns
MaxEvents == 4
\* The request ids a session hands out over its turns stay below this.
MaxRequests == 5

\* The id the backend gives the k-th turn it is asked to run.
TurnIdOf(k) == <<"G1", "G2", "G3", "G4", "G5", "G6", "G7", "G8">>[k]
\* The consumer events that belong to a turn.
TurnScoped ==
    {"reasoning-delta", "reasoning-section-break", "response-delta",
     "command-output-delta", "approval-request"}
TurnMarks == {"waiting-start", "waiting-stop", "turn-complete"}
RECURSIVE TurnTypes(_)
\* The types of the turn events among evs, in order.
TurnTypes(evs) ==
    IF evs = <<>> THEN <<>>
    ELSE (IF Head(evs).type \in TurnScoped \cup TurnMarks THEN <<Head(evs).type>> ELSE <<>>)
             \o TurnTypes(Tail(evs))
RECURSIVE Requests(_)
\* The requests among the messages handed to bridge.send: those with an id.
Requests(sent) ==
    IF sent = <<>> THEN <<>>
    ELSE (IF Head(sent).id # 0
          THEN <<[id |-> Head(sent).id, method |-> Head(sent).method]>> ELSE <<>>)
             \o Requests(Tail(sent))
\* The ids of the turn/start requests so far, one for each accepted runTurn.
TurnStartIds(h) ==
    LET starts == SelectSeq(h.reqs, LAMBDA q : q.method = "turn/start")
    IN  [i \in DOMAIN starts |-> starts[i].id]
\* The backend is running the turn it was asked for last: it has not reported
\* the turn completed and has not refused the turn/start request.
BackendInTurn(s, h) ==
    LET k == Len(s.turnFuts) IN
    /\ k >= 1
    /\ k \notin h.completed
    /\ Len(TurnStartIds(h)) = k
    /\ [id |-> TurnStartIds(h)[k], error |-> TRUE] \notin h.answered
\* What the backend writes while it runs turn k, in the order it writes it;
\* the transport may hand it over after the session has settled the turn.
TurnEventsOf(k) ==
    {[e EXCEPT !.turnId = TurnIdOf(k)] :
        e \in {EvTurnStarted, EvTurnCompleted, EvReasoningDelta, EvAgentDelta,
               EvCommandApproval}}
TurnsEventSteps(s, h) ==
    IF Deliverable(s)
    THEN {StepOf(OnEventOf(e), handleEvent(s, e)) :
            e \in {EvThreadStarted}
                    \cup (IF BackendInTurn(s, h) THEN TurnEventsOf(Len(s.turnFuts)) ELSE {})}
    ELSE {}

\* The backend answers the requests in the order it received them, and
\* refuses none but a turn/start request.
TurnsMessageSteps(s) ==
    IF Running(s) /\ s.pendingRequests # {}
    THEN LET id == CHOOSE i \in {q.id : q \in s.pendingRequests} :
                       \A q \in s.pendingRequests : i <= q.id
         IN  {StepOf(OnGlobalMessageOf(m), handleGlobalMessage(s, m)) :
                m \in {GlobalMessage("number", id, Undef, error) :
                         error \in {x \in BOOLEAN :
                                      x => PendingMethod(s.pendingRequests, id) = "turn/start"}}}
    ELSE {}

\* The history after the call or callback tag with result r.
Record(h, r, tag) ==
    [evs |-> h.evs \o TurnTypes(r.evs),
     reqs |-> h.reqs \o Requests(r.sent),
     answered |->
         h.answered \cup
             (IF tag.op = "onGlobalMessage" /\ isResponse(tag.msg) /\ tag.msg.idType = "number"
              THEN {[id |-> tag.msg.id, error |-> tag.msg.error]} ELSE {}),
     completed |->
         h.completed \cup
             (IF tag.op = "onEvent" /\ tag.ev.kind = TurnCompleted
              THEN {k \in 1..MaxRequests : TurnIdOf(k) = tag.ev.turnId} ELSE {})]

TurnsStep(r, tag) ==
    /\ r.s.nextId <= MaxRequests
    /\ Len(r.s.approvals) <= MaxApprovals
    /\ Len(Record(history, r, tag).evs) <= MaxEvents + Len(r.s.turnFuts)
    /\ SessionStep(r, tag)
    /\ history' = Record(history, r, tag)
    /\ UNCHANGED <<writerVars, token, feed, models>>

TurnsWaitForThreadStart == \E x \in WaitForThreadStartSteps(Cur) : TurnsStep(x.result, x.call)
TurnsRunTurn == \E x \in RunTurnSteps(Cur) : TurnsStep(x.result, x.call)
TurnsInterruptTurn == \E x \in InterruptTurnSteps(Cur) : TurnsStep(x.result, x.call)
TurnsOnEvent == \E x \in TurnsEventSteps(Cur, history) : TurnsStep(x.result, x.call)
TurnsOnGlobalMessage == \E x \in TurnsMessageSteps(Cur) : TurnsStep(x.result, x.call)
TurnsOnProcessExit == \E x \in OnProcessExitSteps(Cur) : TurnsStep(x.result, x.call)

InitTurns ==
    /\ config \in [approvalMode : {"auto-approve"}, reasoningOnly : BOOLEAN, debug : {FALSE}]
    /\ NewSession
    /\ NewWriter
    /\ token = NoTable
    /\ NewAux
NextTurns ==
    \/ TurnsWaitForThreadStart
    \/ TurnsRunTurn
    \/ TurnsInterruptTurn
    \/ TurnsOnEvent
    \/ TurnsOnGlobalMessage
    \/ TurnsOnProcessExit

SpecTurns == InitTurns /\ [][NextTurns]_vars

\* ------------------------------------------------------------ turn ids
\* turn/started events: without an id, with the id of a turn the backend
\* runs, and with an id of no turn.
TurnStartedEvents ==
    {BridgeEvent(TurnStarted, "T1", g, Notification(TurnStarted)) :
        g \in {"", "G1", "G2", "G8"}}

\* C31: a turn/started event records its turn id when the turn is active and
\* has no id yet, changing nothing else, sending and emitting nothing; in every
\* other state it changes nothing at all, so a recorded id is never
\* overwritten.  runTurn starts the turn without an id, the id of an active
\* turn is the one the backend gave that turn, and that is the id interruptTurn
\* sends.
C31_TurnStarted ==
    /\ \A e \in TurnStartedEvents :
           handleEvent(Cur, e) =
               IF turnState.status = "active" /\ turnState.turnId = "" /\ e.turnId # ""
               THEN [Enter(Cur) EXCEPT !.s.turnState.turnId = e.turnId]
               ELSE Enter(Cur)
    /\ \A text \in Texts :
           runTurn(Cur, text).res = "pending" => runTurn(Cur, text).s.turnState.turnId = ""
    /\ turnState.status = "active" => turnState.turnId \in {"", TurnIdOf(turnState.fut)}
    /\ \A i \in DOMAIN interruptTurn(Cur).sent :
           /\ turnState.status = "active"
           /\ interruptTurn(Cur).sent[i].turnId = TurnIdOf(turnState.fut)

\* The second turn has its id, a turn/started event naming the first turn
\* changes nothing, and interruptTurn sends the id of the second turn.
C31_Witness ==
    /\ turnState.status = "active" /\ turnState.fut = 2
    /\ turnFuts[1].state = "resolved"
    /\ turnState.turnId = "G2"
    /\ handleEvent(Cur, [EvTurnStarted EXCEPT !.turnId = "G1"]) = Enter(Cur)
    /\ Len(interruptTurn(Cur).sent) = 1
    /\ interruptTurn(Cur).sent[1].turnId = "G2"

\* ------------------------------------------------------- waiting indicator
\* The position of the waiting-start of the turn the i-th turn event was
\* emitted in; 0 when it was emitted in no turn (before the first
\* waiting-start, or after the turn-complete of the last turn before it).
TurnStartOf(h, i) ==
    LET marks == {j \in 1..(i - 1) : h[j] \in {"waiting-start", "turn-complete"}}
        last == IF marks = {} THEN 0 ELSE CHOOSE j \in marks : \A k \in marks : k <= j
    IN  IF last > 0 /\ h[last] = "waiting-start" THEN last ELSE 0
\* The events that count as a token of a turn.
FirstTokenEvents ==
    {e \in InEvents :
        e.kind \in REASONING_EVENT_KINDS \cup APPROVAL_KINDS
                     \cup {AgentMessageDelta, CommandOutputDelta}}

\* C32: every waiting-stop is emitted in a turn, after the waiting-start of
\* that turn, with no other waiting-stop and no reasoning, response,
\* command-output or approval-request event of the turn before it; every such
\* event of a turn has the waiting-stop of the turn before it.  runTurn emits
\* waiting-start and starts the turn without a first token, and the first
\* token of every turn, the first turn or a later one, emits waiting-stop
\* before anything else.
C32_WaitingStopOncePerTurn ==
    LET h == history.evs IN
    /\ \A i \in DOMAIN h :
           h[i] = "waiting-stop" =>
               /\ TurnStartOf(h, i) > 0
               /\ \A k \in (TurnStartOf(h, i) + 1)..(i - 1) :
                      h[k] \notin TurnScoped \cup {"waiting-stop"}
    /\ \A i \in DOMAIN h :
           h[i] \in TurnScoped /\ TurnStartOf(h, i) > 0 =>
               \E k \in (TurnStartOf(h, i) + 1)..(i - 1) : h[k] = "waiting-stop"
    /\ \A text \in Texts :
           LET r == runTurn(Cur, text) IN
           r.res = "pending" =>
               /\ Types(r.evs) = {"waiting-start"}
               /\ ~r.s.turnState.gotFirstToken
    /\ turnState.status = "active" =>
           \A e \in FirstTokenEvents :
               LET r == handleEvent(Cur, e) IN
               /\ Count(r.evs, "waiting-stop") = IF turnState.gotFirstToken THEN 0 ELSE 1
               /\ ~turnState.gotFirstToken => r.evs[1].type = "waiting-stop"
               /\ r.s.turnState.status = "active" => r.s.turnState.gotFirstToken

\* Two turns, each with its waiting-stop before its delta and a second delta
\* without one.
C32_Witness ==
    /\ Len(history.evs) >= 6
    /\ SubSeq(history.evs, 1, 3) = <<"waiting-start", "waiting-stop", "turn-complete">>
    /\ SubSeq(history.evs, 4, 6) = <<"waiting-start", "waiting-stop", "reasoning-delta">>
    /\ turnState.status = "active" /\ turnState.fut = 2 /\ turnState.gotFirstToken
    /\ Types(handleEvent(Cur, EvReasoningDelta).evs) = {"reasoning-delta"}

\* ------------------------------------------------- the pending-request table
TrackedMethods == {"initialize", "thread/start", "turn/start", "turn/interrupt"}

\* C33: the ids of the requests sent are strictly increasing, each below
\* nextId; the requests are the handshake, thread/start, turn/start and
\* turn/interrupt; the table holds exactly the requests sent and not yet
\* answered, each under its method; and a response with a numeric id, success
\* or error, removes the entry of that id and no other.
C33_PendingTable ==
    LET reqs == history.reqs
        answered == {a.id : a \in history.answered}
    IN  /\ \A i, j \in DOMAIN reqs : i < j => reqs[i].id < reqs[j].id
        /\ \A i \in DOMAIN reqs : reqs[i].id < nextId /\ reqs[i].method \in TrackedMethods
        /\ pendingRequests = {reqs[i] : i \in {k \in DOMAIN reqs : reqs[k].id \notin answered}}
        /\ \A q \in pendingRequests, error \in BOOLEAN :
               handleGlobalMessage(Cur, GlobalMessage("number", q.id, Undef, error))
                       .s.pendingRequests
                   = pendingRequests \ {q}

\* All four kinds of request were sent; the handshake and thread/start were
\* answered, turn/start was refused, and turn/interrupt is still in the table.
C33_Witness ==
    /\ {history.reqs[i].method : i \in DOMAIN history.reqs} = TrackedMethods
    /\ pendingRequests = {[id |-> 4, method |-> "turn/interrupt"]}
    /\ history.answered =
           {[id |-> 1, error |-> FALSE], [id |-> 2, error |-> FALSE], [id |-> 3, error |-> TRUE]}
    /\ nextId = 5

\* C40: every reasoning-delta, reasoning-section-break, response-delta,
\* command-output-delta and approval-request event is emitted in a turn: after
\* a waiting-start, with no turn-complete between the two.
C40_TurnScopedInsideTurn ==
    \A i \in DOMAIN history.evs :
        history.evs[i] \in TurnScoped => TurnStartOf(history.evs, i) > 0

\* ------------------------------------------ settlements of an earlier turn
\* A turn/completed notification of turn k.
TurnCompletedOf(k) == [EvTurnCompleted EXCEPT !.turnId = TurnIdOf(k)]

\* C34: while a turn is active, a turn/completed notification that names an
\* earlier turn (all of them settled) settles no future, leaves the turn
\* active and emits nothing.
C34_LateTurnCompletedIgnored ==
    turnState.status = "active" =>
        \A k \in 1..(turnState.fut - 1) :
            LET r == handleEvent(Cur, TurnCompletedOf(k)) IN
            /\ turnFuts[k].state # "pending"
            /\ r.s.turnFuts = turnFuts
            /\ r.s.turnState = turnState
            /\ r.evs = <<>>

\* C35: while a turn is active, an error response to the turn/start request
\* of an earlier turn (settled, its request still unanswered) rejects no
\* future of the later turn and leaves the later turn active.
C35_TurnStartErrorSettlesItsTurn ==
    turnState.status = "active" =>
        \A k \in 1..(turnState.fut - 1) :
            LET id == TurnStartIds(history)[k]
                r == handleGlobalMessage(Cur, ErrorResponse(id))
            IN  PendingMethod(pendingRequests, id) = "turn/start" =>
                    /\ turnFuts[k].state # "pending"
                    /\ r.s.turnFuts[turnState.fut].state = "pending"
                    /\ r.s.turnState = turnState

\* ---------------------------------------------------- start while starting
\* C36: waitForThreadStart called while the thread is starting sends nothing
\* and allocates no request id, and once the thread is no longer starting
\* (thread/started or a failure of thread/start has arrived) no future a
\* waitForThreadStart call returned is still pending.
C36_StartWhileStarting ==
    /\ threadState.status = "starting" =>
           /\ waitForThreadStart(Cur).sent = <<>>
           /\ waitForThreadStart(Cur).s.nextId = nextId
    /\ threadState.status # "starting" => PendingIn(startFuts) = {}

\* ------------------------------------------------- exit while starting
\* C37: when the backend process exits, the handler leaves no future of the
\* session pending: it rejects the start future of a starting thread as it
\* rejects the future of an active turn.  (After the exit the transport
\* delivers nothing more, so a future the handler leaves pending stays so.)
C37_ExitSettlesEveryWait ==
    LET r == handleProcessExit(Cur) IN
    /\ turnState.status = "active" => r.s.turnFuts[turnState.fut].state = "rejected"
    /\ threadState.status = "starting" => r.s.startFuts[threadState.fut].state = "rejected"

\* ==================================================== fetchAvailableModels
MaxCallbacks == 2
\* The id fetchAvailableModels gives its model/list request.
modelListId == 3

\* A decoded global message with a result member: form "absent" (no result),
\* "null", or "object" with a data member that is absent, a string or an array.
ModelResult(form, t, v) == [form |-> form, data |-> [t |-> t, v |-> v]]
NoResult == ModelResult("absent", "undefined", <<>>)
ModelMessage(idType, id, method, error, result) ==
    [idType |-> idType, id |-> id, method |-> method, error |-> error, result |-> result]
\* An entry of the data array as the backend sends it; the client keeps the
\* five fields of ModelInfo.
Model(id, isDefault) ==
    [id |-> id, model |-> id, displayName |-> id, description |-> "", isDefault |-> isDefault,
     upgrade |-> "next"]
ModelInfo(m) ==
    [id |-> m.id, model |-> m.model, displayName |-> m.displayName,
     description |-> m.description, isDefault |-> m.isDefault]
DataArrays == {<<>>, <<Model("m1", TRUE)>>, <<Model("m1", TRUE), Model("m2", FALSE)>>}
ModelResults ==
    {NoResult, ModelResult("null", "undefined", <<>>), ModelResult("object", "undefined", <<>>),
     ModelResult("object", "string", <<>>)}
        \cup {ModelResult("object", "array", d) : d \in DataArrays}
\* Responses to model/list (a result or an error), the response to the
\* handshake, a response with a string id, and a server request with id 3.
ModelMessages ==
    {ModelMessage("number", modelListId, Undef, FALSE, r) : r \in ModelResults}
        \cup {ModelMessage("number", modelListId, Undef, TRUE, NoResult),
              ModelMessage("number", 1, Undef, FALSE, ModelResult("object", "array", <<>>)),
              ModelMessage("string", modelListId, Undef, FALSE,
                           ModelResult("object", "array", <<Model("m1", TRUE)>>)),
              ModelMessage("number", modelListId, Str("model/list"), FALSE, NoResult)}

clearTimeout(m) == [m EXCEPT !.timer = IF @ = "armed" THEN "cleared" ELSE @]
resolveOuter(m, value) == [m EXCEPT !.resolved = Append(@, value)]

\* The executor of the promise fetchAvailableModels returns.
fetchAvailableModels(m) ==
    LET m1 == [m EXCEPT !.called = TRUE, !.timer = "armed", !.starts = @ + 1]
        initReq == Msg("initialize", m1.nextId)
        m2 == [m1 EXCEPT !.nextId = @ + 1, !.sent = @ \o <<initReq, Msg("initialized", 0)>>]
    IN  [m2 EXCEPT !.sent = Append(@, Msg("model/list", modelListId))]

\* The callback of setTimeout.
fetchTimeout(m) ==
    LET m1 == [m EXCEPT !.timer = "fired"] IN
    IF ~m1.settled
    THEN resolveOuter([m1 EXCEPT !.settled = TRUE, !.stops = @ + 1], <<>>)
    ELSE m1

fetchOnGlobalMessage(m, message) ==
    IF ~isResponse(message) THEN m
    ELSE IF message.idType # "number" THEN m
    ELSE IF message.id = modelListId /\ ~m.settled
    THEN LET m1 == [clearTimeout([m EXCEPT !.settled = TRUE]) EXCEPT !.stops = @ + 1]
             result == message.result
         IN  IF message.error THEN resolveOuter(m1, <<>>)
             ELSE IF result.form = "object" /\ result.data.t = "array"
             THEN resolveOuter(m1, [i \in DOMAIN result.data.v |-> ModelInfo(result.data.v[i])])
             ELSE resolveOuter(m1, <<>>)
    ELSE m

fetchOnProtocolError(m) ==
    IF ~m.settled
    THEN resolveOuter([clearTimeout([m EXCEPT !.settled = TRUE]) EXCEPT !.stops = @ + 1], <<>>)
    ELSE m

\* onProcessExit settling whatever happened before.
fetchOnProcessExitUnguarded(m) == resolveOuter(clearTimeout([m EXCEPT !.settled = TRUE]), <<>>)

fetchOnProcessExit(m) ==
    IF ~m.settled THEN resolveOuter(clearTimeout([m EXCEPT !.settled = TRUE]), <<>>) ELSE m

\* A callback of the call: its kind and, for a global message, the message.
Callback(kind, message) == [kind |-> kind, message |-> message]
NoModelMessage == ModelMessage("undefined", 0, Undef, FALSE, NoResult)
\* The state of the call m after callback c, which joins the log.
ModelsStep(m, c) ==
    /\ models' = [m EXCEPT !.log = Append(models.log, c)]
    /\ UNCHANGED <<sessionVars, writerVars, token, history, feed>>
\* The transport calls back while the program waits, also after bridge.stop()
\* for what the backend wrote before; the process exits once.
Delivering == models.called /\ Len(models.log) < MaxCallbacks

FetchAvailableModels ==
    /\ ~models.called
    /\ models' = fetchAvailableModels(models)
    /\ UNCHANGED <<sessionVars, writerVars, token, history, feed>>
FetchTimeout ==
    /\ models.timer = "armed"
    /\ ModelsStep(fetchTimeout(models), Callback("timeout", NoModelMessage))
FetchOnGlobalMessage ==
    /\ Delivering
    /\ \E message \in ModelMessages :
           ModelsStep(fetchOnGlobalMessage(models, message), Callback("message", message))
FetchOnProtocolError ==
    /\ Delivering
    /\ ModelsStep(fetchOnProtocolError(models), Callback("protocolError", NoModelMessage))
FetchOnProcessExit ==
    /\ Delivering
    /\ \A i \in DOMAIN models.log : models.log[i].kind # "exit"
    /\ ModelsStep(fetchOnProcessExit(models), Callback("exit", NoModelMessage))

InitModels ==
    /\ config = [approvalMode |-> "prompt", reasoningOnly |-> FALSE, debug |-> FALSE]
    /\ NewSession
    /\ NewWriter
    /\ token = NoTable
    /\ NewAux
NextModels ==
    \/ FetchAvailableModels
    \/ FetchTimeout
    \/ FetchOnGlobalMessage
    \/ FetchOnProtocolError
    \/ FetchOnProcessExit

\* The timer of the runtime fires unless it is cleared.
SpecModels == InitModels /\ [][NextModels]_vars /\ WF_vars(FetchTimeout)

\* The callbacks that settle an unsettled call: the timeout, a protocol error,
\* the process exit and a response with the numeric id of model/list.
Settling(c) ==
    \/ c.kind \in {"timeout", "protocolError", "exit"}
    \/ /\ c.kind = "message"
       /\ c.message.method = Undef
       /\ c.message.idType = "number"
       /\ c.message.id = modelListId
\* The position in log of the first settling callback; 0 when there is none.
FirstSettling(log) ==
    LET is == {i \in DOMAIN log : Settling(log[i])}
    IN  IF is = {} THEN 0 ELSE CHOOSE i \in is : \A j \in is : i <= j
\* A successful model/list response carrying a data array.
Successful(c) ==
    /\ c.kind = "message"
    /\ ~c.message.error
    /\ c.message.result.form = "object"
    /\ c.message.result.data.t = "array"
ModelsSettledOnce ==
    LET first == FirstSettling(models.log) IN
    /\ Len(models.resolved) = IF first > 0 THEN 1 ELSE 0
    /\ models.settled <=> first > 0
    /\ first > 0 =>
           /\ models.timer # "armed"
           /\ models.stops = IF models.log[first].kind = "exit" THEN 0 ELSE 1
           /\ models.resolved[1] =
                  IF Successful(models.log[first])
                  THEN LET data == models.log[first].message.result.data.v
                       IN  [i \in DOMAIN data |-> ModelInfo(data[i])]
                  ELSE <<>>
           /\ \A message \in ModelMessages : fetchOnGlobalMessage(models, message) = models
           /\ fetchOnProtocolError(models) = models
           /\ fetchOnProcessExit(models) = models
    /\ models.starts = IF models.called THEN 1 ELSE 0
    /\ models.called =>
           models.sent = <<Msg("initialize", 1), Msg("initialized", 0), Msg("model/list", 3)>>

\* C38: resolveOuter is called exactly once, by the first of the timeout, a
\* protocol error, the process exit and a model/list response; its argument
\* is the empty list unless that first callback is a successful response
\* carrying a data array, whose entries it then holds; callbacks after the
\* first change nothing; and once fetchAvailableModels is called, with a timer
\* that fires unless cleared, the result is eventually produced.
C38_FetchSettlesOnce ==
    /\ []ModelsSettledOnce
    /\ (models.called ~> Len(models.resolved) = 1)

\* The successful response won: the list holds the two models, the timer is
\* cleared, and the exit of the stopped process changed nothing.
C38_Witness ==
    /\ Len(models.log) = 2
    /\ Successful(models.log[1]) /\ models.log[1].message.id = modelListId
    /\ models.log[2].kind = "exit"
    /\ models.resolved = <<<<ModelInfo(Model("m1", TRUE)), ModelInfo(Model("m2", FALSE))>>>>
    /\ models.timer = "cleared"
    /\ models.stops = 1

\* ========================================================== fragmentation
MaxFeed == 6

\* Text, a line end and a fence character.
FeedChars == {"a", NL, Tilde}
FeedTexts == UNION {[1..n -> FeedChars] : n \in 0..MaxFeed}
\* marked.parse is a function of its argument: here it throws on every
\* paragraph or on none.
FeedOracle(f) == IF f.throws THEN 1..(MaxFeed + 1) ELSE {}

\* The next fragment of the text (of any length, the empty one included)
\* goes to addDelta.
FeedAddDelta ==
    /\ ~feed.flushed
    /\ feed.fragments <= Len(feed.text)
    /\ \E n \in 0..(Len(feed.text) - feed.fed) :
           LET r == addDelta(writer, SubSeq(feed.text, feed.fed + 1, feed.fed + n),
                             FeedOracle(feed))
           IN  /\ writer' = r.w
               /\ emitted' = r.out
               /\ returned' = Return("addDelta", Void)
               /\ feed' = [feed EXCEPT !.fed = @ + n, !.fragments = @ + 1,
                                       !.out = @ \o r.out]
    /\ UNCHANGED <<sessionVars, token, history, models>>
\* The whole text is in: flush.
FeedFlush ==
    /\ ~feed.flushed
    /\ feed.fed = Len(feed.text)
    /\ LET r == flush(writer, FeedOracle(feed))
       IN  /\ writer' = r.w
           /\ emitted' = r.out
           /\ returned' = Return("flush", Void)
           /\ feed' = [feed EXCEPT !.flushed = TRUE, !.out = @ \o r.out]
    /\ UNCHANGED <<sessionVars, token, history, models>>

InitFragments ==
    /\ config = [approvalMode |-> "prompt", reasoningOnly |-> FALSE, debug |-> FALSE]
    /\ NewSession
    /\ NewWriter
    /\ token = NoTable
    /\ history = NoHistory
    /\ models = NoModels
    /\ feed \in {[NoFeed EXCEPT !.text = text, !.throws = throws] :
                    text \in FeedTexts, throws \in BOOLEAN}
NextFragments == FeedAddDelta \/ FeedFlush

SpecFragments == InitFragments /\ [][NextFragments]_vars

\* C39: however the text is cut into fragments, after every addDelta the
\* partial line holds no line end, and the writer and the chunks emitted so
\* far are those of a single addDelta of the text fed so far; after the flush
\* they are those of a single addDelta of the whole text followed by flush.
C39_FragmentationIndependence ==
    LET bad == FeedOracle(feed)
        whole == addDelta(InitWriter, SubSeq(feed.text, 1, feed.fed), bad)
        end == flush(whole.w, bad)
    IN  /\ \A i \in DOMAIN writer.buffer : writer.buffer[i] # NL
        /\ ~feed.flushed => writer = whole.w /\ feed.out = whole.out
        /\ feed.flushed => writer = end.w /\ feed.out = whole.out \o end.out

\* A paragraph, a fence and a code line, fed in three fragments and flushed:
\* the paragraph, the opening of the block and the code line were emitted.
C39_Witness ==
    /\ feed.text = <<"a", NL, Tilde, Tilde, Tilde, NL>>
    /\ feed.fragments = 3
    /\ feed.flushed
    /\ ~feed.throws
    /\ [i \in DOMAIN feed.out |-> feed.out[i].kind] = <<"rendered", "open">>
    /\ writer.inCodeBlock /\ writer.buffer = <<>>

====
